---- MODULE Spec2Model ----
(***************************************************************************)
(* Neon Motion Drum: the motion detection engine (MotionDetector) as a     *)
(* state machine.  A detector is a record holding the fields the           *)
(* constructor sets; every method is an operator that takes the detector   *)
(* (`this`) and returns the detector it leaves behind and its return       *)
(* value.                                                                  *)
(*                                                                         *)
(* Brightness values are exact rationals kept as integers in units of      *)
(* 1 / BrightnessUnit (BrightnessUnit = 3 * pixels per cell), so that the  *)
(* two divisions of getRegionBrightness lose nothing.                      *)
(***************************************************************************)
EXTENDS Integers, Sequences, FiniteSets, TLC

VARIABLES detector, call, lastTrigger, cleared, twin, drums, audio, app, diag

vars == <<detector, call, lastTrigger, cleared, twin, drums, audio, app, diag>>

NULL == "null"

----------------------------------------------------------------------------
(* Program constants                                                       *)

DefaultWidth == 64
DefaultHeight == 48
DefaultCols == 3
DefaultRows == 3
DefaultThreshold == 20
DefaultCooldownMs == 250
MinThreshold == 1
MaxThreshold == 100
MinCooldown == 50
MaxCooldown == 1000
HAVE_CURRENT_DATA == 2

----------------------------------------------------------------------------
(* Bounds of the model                                                     *)

\* Date.now() is read from the instants k * MinCooldown, k in 1..MaxTick.
MaxTick == 3

Times == {k * MinCooldown : k \in 1..MaxTick}

\* video.readyState as the guard of detect() sees it.
ReadyStates == {HAVE_CURRENT_DATA - 1, HAVE_CURRENT_DATA}

\* Which call inside the try block of detect() throws, if any.
Throws == {"none", "drawImage", "getImageData"}

Abs(x) == IF x < 0 THEN -x ELSE x

Min(a, b) == IF a < b THEN a ELSE b

Max(a, b) == IF a > b THEN a ELSE b

\* JavaScript `a || b` on numbers: undefined, NaN and 0 are all falsy; a missing
\* or unparsable option is written 0.
OrDefault(a, b) == IF a = 0 THEN b ELSE a

\* The value of this.ctx / this.debugCtx while it is null.
NoContext == [scaleX |-> 0, stack |-> <<>>]

----------------------------------------------------------------------------
(* new MotionDetector(options)                                             *)

MotionDetector(options) ==
  LET width == OrDefault(options.width, DefaultWidth)
      height == OrDefault(options.height, DefaultHeight)
      cols == OrDefault(options.cols, DefaultCols)
      rows == OrDefault(options.rows, DefaultRows)
      cellCount == cols * rows
  IN [width |-> width,
      height |-> height,
      cols |-> cols,
      rows |-> rows,
      cellCount |-> cellCount,
      threshold |-> OrDefault(options.threshold, DefaultThreshold),
      cooldownMs |-> OrDefault(options.cooldownMs, DefaultCooldownMs),
      previousBrightness |-> [i \in 0..(cellCount - 1) |-> 0],
      cooldowns |-> [i \in 0..(cellCount - 1) |-> 0],
      ctx |-> NoContext,
      video |-> NULL,
      debugCtx |-> NoContext]

NoOptions ==
  [width |-> 0, height |-> 0, cols |-> 0, rows |-> 0, threshold |-> 0, cooldownMs |-> 0]

Cells == 0..(DefaultCols * DefaultRows - 1)

----------------------------------------------------------------------------
(* The frame source.  A scene gives a gray level (R = G = B) to each of    *)
(* the nine on-screen pads; the camera sees it unmirrored, at the          *)
(* detection resolution.  A camera wider than 4:3 shows the scene in the   *)
(* centred 4:3 part of its picture and the gray level `side` left and      *)
(* right of it.                                                            *)

\* The pad of the on-screen (mirrored) picture that holds position (x, y).
PadAt(x, y) ==
  LET cellW == DefaultWidth \div DefaultCols
      cellH == DefaultHeight \div DefaultRows
  IN Min(y \div cellH, DefaultRows - 1) * DefaultCols
       + Min(x \div cellW, DefaultCols - 1)

\* The camera picture of a scene: the user's right is the picture's left.
VideoFrame(scene) ==
  [videoWidth |-> DefaultWidth, videoHeight |-> DefaultHeight, scene |-> scene,
   side |-> 0]

\* video.videoWidth of a 2:1 camera of the same height.
WideWidth == 96

\* The picture of a 2:1 camera.
WideFrame(scene, side) ==
  [videoWidth |-> WideWidth, videoHeight |-> DefaultHeight, scene |-> scene,
   side |-> side]

\* The first column of the centred 4:3 part of the picture.
CropX(video) == (video.videoWidth - DefaultWidth) \div 2

VideoPixel(video, sx, sy) ==
  LET x == sx - CropX(video)
  IN IF x < 0 \/ x >= DefaultWidth
     THEN video.side
     ELSE video.scene[PadAt(DefaultWidth - 1 - x, sy)]

----------------------------------------------------------------------------
(* CanvasRenderingContext2D, as far as detect() uses it: the transform     *)
(* (only its x scale) and the stack of saved transforms.  The pixels of    *)
(* the canvas are overwritten on every pass and are a value local to it.   *)

NewContext == [scaleX |-> 1, stack |-> <<>>]

ctxSave(ctx) == [ctx EXCEPT !.stack = Append(@, ctx.scaleX)]

ctxScale(ctx, sx) == [ctx EXCEPT !.scaleX = @ * sx]

\* restore() with nothing saved does nothing.
ctxRestore(ctx) ==
  IF ctx.stack = <<>>
  THEN ctx
  ELSE [ctx EXCEPT !.scaleX = ctx.stack[Len(ctx.stack)],
                   !.stack = SubSeq(ctx.stack, 1, Len(ctx.stack) - 1)]

\* drawImage(video, dx, dy, dw, dh): the whole source picture is fitted into
\* the destination rectangle, placed through the current transform.  The
\* result is the canvas content.
ctxDrawImage(ctx, video, dx, dy, dw, dh) ==
  [video |-> video, scaleX |-> ctx.scaleX, dx |-> dx, dy |-> dy, dw |-> dw, dh |-> dh]

\* The gray level of canvas pixel (x, y) after the draw; 0 where nothing was drawn.
CanvasPixel(canvas, x, y) ==
  LET \* user-space column of device column x, counted from the rectangle's edge
      ux == (IF canvas.scaleX < 0 THEN -x - 1 ELSE x) - canvas.dx
      uy == y - canvas.dy
  IN IF ux < 0 \/ ux >= canvas.dw \/ uy < 0 \/ uy >= canvas.dh
     THEN 0
     ELSE VideoPixel(canvas.video, (ux * canvas.video.videoWidth) \div canvas.dw,
                                   (uy * canvas.video.videoHeight) \div canvas.dh)

\* getImageData(0, 0, w, h): RGBA bytes, row by row.
ctxGetImageData(canvas, w, h) == [width |-> w, height |-> h, canvas |-> canvas]

ImageByte(imageData, idx) ==
  LET p == idx \div 4
  IN IF idx % 4 = 3
     THEN 255
     ELSE CanvasPixel(imageData.canvas, p % imageData.width, p \div imageData.width)

----------------------------------------------------------------------------
(* getRegionBrightness(imageData, cellIndex)                               *)

\* 3 * pixelCount of a cell: the unit brightness values are kept in.
BrightnessUnit(this) ==
  3 * (this.width \div this.cols) * (this.height \div this.rows)

RECURSIVE SumRow(_, _, _, _)
\* The inner loop (over x) of row y, from x on: the sum of R + G + B.
SumRow(imageData, x, y, endX) ==
  IF x >= endX THEN 0
  ELSE LET idx == (y * imageData.width + x) * 4
       IN ImageByte(imageData, idx) + ImageByte(imageData, idx + 1)
            + ImageByte(imageData, idx + 2)
            + SumRow(imageData, x + 1, y, endX)

RECURSIVE SumPixels(_, _, _, _, _)
\* The outer loop (over y), from y on.
SumPixels(imageData, y, startX, endX, endY) ==
  IF y >= endY THEN 0
  ELSE SumRow(imageData, startX, y, endX)
         + SumPixels(imageData, y + 1, startX, endX, endY)

getRegionBrightness(this, imageData, cellIndex) ==
  LET col == cellIndex % this.cols
      row == cellIndex \div this.cols
      cellW == this.width \div this.cols
      cellH == this.height \div this.rows
      startX == col * cellW
      startY == row * cellH
      pixelCount == cellW * cellH
  IN IF pixelCount > 0
     THEN SumPixels(imageData, startY, startX, startX + cellW, startY + cellH)
     ELSE 0

\* The pixels (x, y) of the image the two loops of getRegionBrightness visit
\* for cellIndex (lines 386-403).
regionPixels(this, cellIndex) ==
  LET col == cellIndex % this.cols
      row == cellIndex \div this.cols
      cellW == this.width \div this.cols
      cellH == this.height \div this.rows
      startX == col * cellW
      startY == row * cellH
  IN (startX..(startX + cellW - 1)) \X (startY..(startY + cellH - 1))

----------------------------------------------------------------------------
(* The scenes shown to the camera                                          *)

\* Gray levels of the centre pad (4) and of the top-left pad (0); the other
\* pads stay dark.
CentreLevels == {0, 21}

CornerLevels == {0, 200}

SceneOf(centre, corner) ==
  [i \in Cells |-> IF i = 4 THEN centre ELSE IF i = 0 THEN corner ELSE 0]

Scenes == {SceneOf(a, b) : a \in CentreLevels, b \in CornerLevels}

\* Arguments of setThreshold and setCooldown.
ThresholdInputs == {1000}

CooldownInputs == {10}

\* Whether init() is handed a debug canvas: the controller always hands one.
DebugCanvases == {TRUE}

DarkScene == SceneOf(0, 0)

\* Gray levels of the centre pad whose differences are the thresholds 1, 20,
\* 50 and 100, and those thresholds plus one.
BoundaryLevels == {0, 1, 2, 21, 51, 101}

BoundaryScenes == {SceneOf(a, 0) : a \in BoundaryLevels}

TabulatedScenes == Scenes \cup BoundaryScenes

\* What a detect() pass meets: a video without a current frame (the clock is
\* not read and no picture is taken); a draw or a read-back that throws; or a
\* picture of a scene read at time now.
Envs ==
  {[readyState |-> r, throws |-> "none", scene |-> DarkScene, now |-> 0] :
     r \in {q \in ReadyStates : q < HAVE_CURRENT_DATA}}
  \cup {[readyState |-> r, throws |-> t, scene |-> DarkScene, now |-> 0] :
     r \in {q \in ReadyStates : q >= HAVE_CURRENT_DATA}, t \in Throws \ {"none"}}
  \cup {[readyState |-> r, throws |-> "none", scene |-> scene, now |-> now] :
     r \in {q \in ReadyStates : q >= HAVE_CURRENT_DATA},
     scene \in Scenes, now \in Times}

----------------------------------------------------------------------------
(* The brightness of every pad of every scene, computed once.  The image   *)
(* is the one detect() reads: the camera picture drawn mirrored into the   *)
(* detection canvas.                                                       *)

MirroredFrame(this, video) ==
  ctxGetImageData(
    ctxDrawImage(ctxScale(ctxSave(NewContext), -1), video,
                 -this.width, 0, this.width, this.height),
    this.width, this.height)

MirroredImage(this, scene) == MirroredFrame(this, VideoFrame(scene))

DefaultDetector == MotionDetector(NoOptions)

\* The gray levels at the sides of the picture of the 2:1 camera.
SideLevels == {0, 200}

WideScenes == {DarkScene, SceneOf(21, 0)}

TabulatedFrames ==
  {VideoFrame(scene) : scene \in TabulatedScenes}
  \cup {WideFrame(scene, side) : scene \in WideScenes, side \in SideLevels}

BrightnessTable ==
  [video \in TabulatedFrames |->
     [i \in Cells |->
        getRegionBrightness(DefaultDetector, MirroredFrame(DefaultDetector, video), i)]]

\* Whether imageData is the mirrored picture of a tabulated frame, taken by a
\* detector of the default geometry.
Tabulated(this, imageData) ==
  /\ this.width = DefaultWidth /\ this.height = DefaultHeight
  /\ this.cols = DefaultCols /\ this.rows = DefaultRows
  /\ imageData.width = this.width /\ imageData.height = this.height
  /\ imageData.canvas.scaleX = -1
  /\ imageData.canvas.dx = -this.width /\ imageData.canvas.dy = 0
  /\ imageData.canvas.dw = this.width /\ imageData.canvas.dh = this.height
  /\ imageData.canvas.video \in TabulatedFrames

\* getRegionBrightness, read from the table when the image is a tabulated one.
regionBrightness(this, imageData, cellIndex) ==
  IF Tabulated(this, imageData) /\ cellIndex \in Cells
  THEN BrightnessTable[imageData.canvas.video][cellIndex]
  ELSE getRegionBrightness(this, imageData, cellIndex)

\* The brightness detect() computes for pad i when the camera shows `scene`.
BrightnessOf(scene, i) == BrightnessTable[VideoFrame(scene)][i]

----------------------------------------------------------------------------
(* init(video, debugCanvas)                                                *)

init(this, video, debugCanvas) ==
  [this EXCEPT !.video = video,
               !.ctx = NewContext,
               !.debugCtx = IF debugCanvas THEN NewContext ELSE @]

----------------------------------------------------------------------------
(* detect()                                                                *)

\* Variant: a pad may trigger again at the very instant its cooldown expires.
triggers_AtExpiry(this, diff, now, i) ==
  diff > this.threshold * BrightnessUnit(this) /\ now >= this.cooldowns[i]

\* Variant: a brightness change equal to the threshold triggers.
triggers_AtThreshold(this, diff, now, i) ==
  diff >= this.threshold * BrightnessUnit(this) /\ now > this.cooldowns[i]

\* The condition of line 366, for cell i.
triggers(this, diff, now, i) ==
  diff > this.threshold * BrightnessUnit(this) /\ now > this.cooldowns[i]

\* Variant: the expiry written on a trigger leaves cooldownMs out.
cooldownAfterTrigger_NoMs(this, now) == now

\* Variant: the expiry written on a trigger is not counted from now.
cooldownAfterTrigger_Absolute(this, now) == this.cooldownMs

\* The expiry written on a trigger (line 368).
cooldownAfterTrigger(this, now) == now + this.cooldownMs

\* Variant: a pad in cooldown is skipped before its brightness is stored.
cellStep_SkipInCooldown(this, imageData, now, i, triggered) ==
  LET brightness == regionBrightness(this, imageData, i)
      diff == Abs(brightness - this.previousBrightness[i])
      fire == triggers(this, diff, now, i)
  IN IF now <= this.cooldowns[i]
     THEN [this |-> this, triggered |-> triggered]
     ELSE [this |-> [this EXCEPT
                       !.cooldowns[i] =
                          IF fire THEN cooldownAfterTrigger(this, now) ELSE @,
                       !.previousBrightness[i] = brightness],
           triggered |-> IF fire THEN Append(triggered, i) ELSE triggered]

\* Variant: one cooldown shared by all pads.
cellStep_SharedCooldown(this, imageData, now, i, triggered) ==
  LET brightness == regionBrightness(this, imageData, i)
      diff == Abs(brightness - this.previousBrightness[i])
      fire == triggers(this, diff, now, i)
  IN [this |-> [this EXCEPT
                  !.cooldowns =
                     IF fire
                     THEN [j \in DOMAIN @ |-> cooldownAfterTrigger(this, now)]
                     ELSE @,
                  !.previousBrightness[i] = brightness],
      triggered |-> IF fire THEN Append(triggered, i) ELSE triggered]

\* Variant: a triggering pad is pushed twice.
cellStep_PushTwice(this, imageData, now, i, triggered) ==
  LET brightness == regionBrightness(this, imageData, i)
      diff == Abs(brightness - this.previousBrightness[i])
      fire == triggers(this, diff, now, i)
  IN [this |-> [this EXCEPT
                  !.cooldowns[i] =
                     IF fire THEN cooldownAfterTrigger(this, now) ELSE @,
                  !.previousBrightness[i] = brightness],
      triggered |-> IF fire THEN Append(Append(triggered, i), i) ELSE triggered]

\* The body of the loop over the cells, for cell i (lines 362-371): the
\* detector it leaves and the array `triggered`.
cellStep(this, imageData, now, i, triggered) ==
  LET brightness == regionBrightness(this, imageData, i)
      diff == Abs(brightness - this.previousBrightness[i])
      fire == triggers(this, diff, now, i)
  IN [this |-> [this EXCEPT
                  !.cooldowns[i] = IF fire THEN cooldownAfterTrigger(this, now) ELSE @,
                  !.previousBrightness[i] = brightness],
      triggered |-> IF fire THEN Append(triggered, i) ELSE triggered]

RECURSIVE cellLoop(_, _, _, _, _)
\* for (let i = 0; i < this.cellCount; i++), from i on.
cellLoop(this, imageData, now, i, triggered) ==
  IF i >= this.cellCount
  THEN [this |-> this, triggered |-> triggered]
  ELSE LET s == cellStep(this, imageData, now, i, triggered)
       IN cellLoop(s.this, imageData, now, i + 1, s.triggered)

\* Variant: the readyState of the video is not looked at.
notReady_NoReadyState(this, env) ==
  this.video = NULL \/ this.ctx = NoContext

\* The two guards at the top of detect() (lines 336-338).
notReady(this, env) ==
  \/ this.video = NULL \/ this.ctx = NoContext
  \/ env.readyState < HAVE_CURRENT_DATA

\* Variant: the catch block does not restore the context.
catchBlock_NoRestore(this, ctx) ==
  [this |-> [this EXCEPT !.ctx = ctx], ret |-> <<>>, thrown |-> FALSE]

\* The catch block (lines 354-358): restore the context, return [].
catchBlock(this, ctx) ==
  [this |-> [this EXCEPT !.ctx = ctxRestore(ctx)], ret |-> <<>>, thrown |-> FALSE]

\* Math.round of a brightness kept in units of 1 / BrightnessUnit.
RoundBrightness(this, brightness) ==
  (2 * brightness + BrightnessUnit(this)) \div (2 * BrightnessUnit(this))

\* drawDebug(imageData, triggered), lines 419-453: what the sink shows
\* afterwards (the frame, a highlight on the cells of `triggered` and, for
\* every cell, the rounded brightness stored for it), and whether painting
\* threw.  Every cell gets a border.  The sink is the canvas of the page:
\* nothing of the detector is written and the sink is never read.
drawDebug(this, imageData, triggered, env) ==
  IF env.throws = "drawDebug"
  THEN [sink |-> <<>>, thrown |-> TRUE]
  ELSE [sink |-> [image |-> imageData,
                  highlighted |-> {i \in 0..(this.cellCount - 1) :
                                     \E k \in 1..Len(triggered) : triggered[k] = i},
                  text |-> [i \in 0..(this.cellCount - 1) |->
                              RoundBrightness(this, this.previousBrightness[i])]],
        thrown |-> FALSE]

\* Step 4 and the return (lines 374-379): the sink, if one is bound, is
\* painted outside the try block, so an exception of drawDebug leaves
\* detect() and nothing is returned.
afterCells(this, imageData, triggered, env) ==
  IF this.debugCtx # NoContext /\ drawDebug(this, imageData, triggered, env).thrown
  THEN [this |-> this, ret |-> <<>>, thrown |-> TRUE]
  ELSE [this |-> this, ret |-> triggered, thrown |-> FALSE]

\* detect() with the video in state env.readyState showing the picture
\* `video`, the clock at env.now, and env.throws saying which call throws:
\* one of the try block, or the painting of the debug sink.
\* The result: the detector left behind, the array returned, and whether an
\* exception leaves detect().
detectOn(this, env, video) ==
  IF notReady(this, env)
  THEN [this |-> this, ret |-> <<>>, thrown |-> FALSE]
  ELSE
    LET now == env.now
        c1 == ctxSave(this.ctx)
        c2 == ctxScale(c1, -1)
    IN IF env.throws = "drawImage"
       THEN catchBlock(this, c2)
       ELSE
         LET canvas == ctxDrawImage(c2, video,
                                    -this.width, 0, this.width, this.height)
             c3 == ctxRestore(c2)
         IN IF env.throws = "getImageData"
            THEN catchBlock(this, c3)
            ELSE
              LET imageData == ctxGetImageData(canvas, this.width, this.height)
                  s == cellLoop([this EXCEPT !.ctx = c3], imageData, now, 0, <<>>)
              IN afterCells(s.this, imageData, s.triggered, env)

\* detect() on the picture of a 4:3 camera.
detect(this, env) == detectOn(this, env, VideoFrame(env.scene))

----------------------------------------------------------------------------
(* setThreshold, setCooldown, getParams, reset                             *)

\* Variant: setThreshold() without the lower clamp.
setThreshold_NoFloor(this, value) ==
  [this EXCEPT !.threshold = Min(MaxThreshold, value)]

setThreshold(this, value) ==
  [this EXCEPT !.threshold = Max(MinThreshold, Min(MaxThreshold, value))]

\* Variant: setCooldown() also ends the cooldowns in progress.
setCooldown_Rearm(this, ms) ==
  [this EXCEPT !.cooldownMs = Max(MinCooldown, Min(MaxCooldown, ms)),
               !.cooldowns = [i \in DOMAIN @ |-> 0]]

setCooldown(this, ms) ==
  [this EXCEPT !.cooldownMs = Max(MinCooldown, Min(MaxCooldown, ms))]

getParams(this) ==
  [threshold |-> this.threshold,
   cooldownMs |-> this.cooldownMs,
   width |-> this.width,
   height |-> this.height,
   cols |-> this.cols,
   rows |-> this.rows]

\* Array.prototype.fill(0)
fill0(array) == [i \in DOMAIN array |-> 0]

\* Variant: reset() replaces the cooldowns by an empty array.
reset_DropCooldowns(this) ==
  [this EXCEPT !.previousBrightness = fill0(@),
               !.cooldowns = [i \in {} |-> 0]]

\* Variant: reset() forgets the cooldowns.
reset_KeepCooldowns(this) == [this EXCEPT !.previousBrightness = fill0(@)]

reset(this) ==
  [this EXCEPT !.previousBrightness = fill0(@), !.cooldowns = fill0(@)]

----------------------------------------------------------------------------
(* Web Audio, as far as SynthDrums uses it.  `audio` holds the objects the *)
(* browser keeps: the AudioContexts made so far (context k is              *)
(* contexts[k]) and every AudioNode made so far (node n is nodes[n]).  A   *)
(* node records the context it belongs to, its kind, the nodes its output  *)
(* is connected to (Destination stands for context.destination), the value *)
(* of its gain parameter in units of 1 / GainUnit, its buffer, whether it  *)
(* was started and has ended, the offset in milliseconds of its scheduled  *)
(* stop, and the nodes its onended handler disconnects.  Two fields are    *)
(* history: stateAtStart, the state of the context when start() was        *)
(* called, and by, the number of the play() call that made the node.       *)

\* this.audioContext = null, this.masterGain = null, this.noiseBuffer = null
NoObject == 0

Destination == 0

GainUnit == 10

\* gain.value of a new GainNode (1.0).
UnityGain == GainUnit

NoStop == -1

NoAudio == [contexts |-> <<>>, nodes |-> <<>>, plays |-> 0, awaiting |-> NoObject]

\* The states a new AudioContext may be in: the browser starts it suspended
\* when its autoplay policy wants a user gesture first.
ContextStates == {"suspended", "running"}

\* new AudioContext()
newAudioContext(w, state) ==
  [w EXCEPT !.audio.contexts = Append(@, [state |-> state, resuming |-> FALSE])]

LastContext(w) == Len(w.audio.contexts)

LastNode(w) == Len(w.audio.nodes)

createNode(w, ctx, kind, value) ==
  [w EXCEPT !.audio.nodes =
     Append(@, [ctx |-> ctx, kind |-> kind, out |-> {}, value |-> value,
                buffer |-> NoObject, started |-> FALSE, ended |-> FALSE,
                stopAt |-> NoStop, onended |-> <<>>,
                stateAtStart |-> "", by |-> w.audio.plays])]

createGain(w, ctx) == createNode(w, ctx, "gain", UnityGain)

createOscillator(w, ctx) == createNode(w, ctx, "oscillator", 0)

createBufferSource(w, ctx) == createNode(w, ctx, "bufferSource", 0)

createBiquadFilter(w, ctx) == createNode(w, ctx, "biquadFilter", 0)

\* node.connect(destination)
connect(w, node, destination) ==
  [w EXCEPT !.audio.nodes[node].out = @ \cup {destination}]

\* node.disconnect(): every output of the node is removed.
disconnect(w, node) == [w EXCEPT !.audio.nodes[node].out = {}]

\* source.start(time)
start(w, node, time) ==
  [w EXCEPT !.audio.nodes[node].started = TRUE,
            !.audio.nodes[node].stateAtStart =
               w.audio.contexts[w.audio.nodes[node].ctx].state]

\* source.stop(time)
stop(w, node, time) == [w EXCEPT !.audio.nodes[node].stopAt = time]

\* audioContext.resume(): a suspended context starts resuming; the state
\* changes only when the browser has brought the context up.
resume(w, ctx) ==
  IF w.audio.contexts[ctx].state = "suspended"
  THEN [w EXCEPT !.audio.contexts[ctx].resuming = TRUE]
  ELSE w

\* audioContext.close()
close(w, ctx) ==
  [w EXCEPT !.audio.contexts[ctx] = [state |-> "closed", resuming |-> FALSE]]

----------------------------------------------------------------------------
(* SynthDrums.  An engine operator takes and returns the world w: the      *)
(* engine (this), the audio objects (audio) and whether the call threw     *)
(* (thrown).                                                               *)

SynthDrums == [audioContext |-> NoObject, noiseBuffer |-> NoObject,
               masterGain |-> NoObject]

\* The master volume init() sets: 0.8.
DefaultVolume == 8

MinVolume == 0

MaxVolume == 1

\* createNoiseBuffer(duration): a buffer of the context; its samples are
\* random and no operation reads them.
createNoiseBuffer(w, duration) == w.this.audioContext

\* init() up to its await (lines 17-28).  The call goes on in initResumed
\* when the context was suspended.
initStart(w, state) ==
  LET w1 == [newAudioContext(w, state) EXCEPT !.this.audioContext = LastContext(w) + 1]
      w2 == [createGain(w1, w1.this.audioContext) EXCEPT
               !.this.masterGain = LastNode(w1) + 1]
      w3 == [w2 EXCEPT !.audio.nodes[w2.this.masterGain].value = DefaultVolume]
      w4 == connect(w3, w3.this.masterGain, Destination)
      w5 == [w4 EXCEPT !.this.noiseBuffer = createNoiseBuffer(w4, 2)]
  IN IF w5.audio.contexts[w5.this.audioContext].state = "suspended"
     THEN [resume(w5, w5.this.audioContext) EXCEPT
             !.audio.awaiting = w5.this.audioContext]
     ELSE w5

\* Variant: the last of the nodes handed to scheduleCleanup is forgotten.
scheduleCleanup_DropLast(w, sourceNode, nodesToDisconnect) ==
  [w EXCEPT !.audio.nodes[sourceNode].onended =
     SubSeq(nodesToDisconnect, 1, Len(nodesToDisconnect) - 1)]

\* scheduleCleanup(sourceNode, ...nodesToDisconnect)
scheduleCleanup(w, sourceNode, nodesToDisconnect) ==
  [w EXCEPT !.audio.nodes[sourceNode].onended = nodesToDisconnect]

\* The onended handler scheduleCleanup installs (lines 58-64).
RECURSIVE cleanup(_, _, _)
cleanup(w, nodesToDisconnect, k) ==
  IF k > Len(nodesToDisconnect) THEN w
  ELSE cleanup(disconnect(w, nodesToDisconnect[k]), nodesToDisconnect, k + 1)

\* noise.buffer = this.noiseBuffer
setBuffer(w, node, buffer) == [w EXCEPT !.audio.nodes[node].buffer = buffer]

\* The voices.  Times are in milliseconds from the currentTime play() read.
\* The automation of frequencies and gains (setValueAtTime, ramps) shapes
\* the sound only and is left out; the nodes, their connections, start,
\* stop and cleanup are as in the code.

playKick(w, time) ==
  LET ctx == w.this.audioContext
      osc == LastNode(w) + 1
      gain == osc + 1
      w1 == createGain(createOscillator(w, ctx), ctx)
      w2 == connect(connect(w1, osc, gain), gain, w.this.masterGain)
      w3 == stop(start(w2, osc, time), osc, time + 400)
  IN scheduleCleanup(w3, osc, <<osc, gain>>)

playSnare(w, time) ==
  LET ctx == w.this.audioContext
      noise == LastNode(w) + 1
      noiseFilter == noise + 1
      noiseGain == noise + 2
      osc == noise + 3
      oscGain == noise + 4
      w1 == setBuffer(createBufferSource(w, ctx), noise, w.this.noiseBuffer)
      w2 == createGain(createBiquadFilter(w1, ctx), ctx)
      w3 == connect(connect(connect(w2, noise, noiseFilter),
                            noiseFilter, noiseGain),
                    noiseGain, w.this.masterGain)
      w4 == createGain(createOscillator(w3, ctx), ctx)
      w5 == connect(connect(w4, osc, oscGain), oscGain, w.this.masterGain)
      w6 == stop(start(w5, noise, time), noise, time + 200)
      w7 == stop(start(w6, osc, time), osc, time + 100)
      w8 == scheduleCleanup(w7, noise, <<noise, noiseFilter, noiseGain>>)
  IN scheduleCleanup(w8, osc, <<osc, oscGain>>)

\* A noise source through one filter and one gain: the chain of the hi-hat
\* and of every burst of the clap.
noiseChain(w, start_, stop_) ==
  LET ctx == w.this.audioContext
      noise == LastNode(w) + 1
      filter == noise + 1
      gain == noise + 2
      w1 == setBuffer(createBufferSource(w, ctx), noise, w.this.noiseBuffer)
      w2 == createGain(createBiquadFilter(w1, ctx), ctx)
      w3 == connect(connect(connect(w2, noise, filter), filter, gain),
                    gain, w.this.masterGain)
      w4 == stop(start(w3, noise, start_), noise, stop_)
  IN scheduleCleanup(w4, noise, <<noise, filter, gain>>)

playHihat(w, time) == noiseChain(w, time, time + 80)

burstCount == 4

\* burstInterval: 0.01 s
burstInterval == 10

RECURSIVE clapLoop(_, _, _)
clapLoop(w, time, i) ==
  IF i < burstCount
  THEN LET t == time + i * burstInterval
       IN clapLoop(noiseChain(w, t, t + 150), time, i + 1)
  ELSE w

playClap(w, time) == clapLoop(w, time, 0)

playTom(w, time, startFreq, endFreq) ==
  LET ctx == w.this.audioContext
      osc == LastNode(w) + 1
      gain == osc + 1
      w1 == createGain(createOscillator(w, ctx), ctx)
      w2 == connect(connect(w1, osc, gain), gain, w.this.masterGain)
      w3 == stop(start(w2, osc, time), osc, time + 300)
  IN scheduleCleanup(w3, osc, <<osc, gain>>)

playCrash(w, time) ==
  LET ctx == w.this.audioContext
      noise == LastNode(w) + 1
      highpass == noise + 1
      lowpass == noise + 2
      gain == noise + 3
      w1 == setBuffer(createBufferSource(w, ctx), noise, w.this.noiseBuffer)
      w2 == createGain(createBiquadFilter(createBiquadFilter(w1, ctx), ctx), ctx)
      w3 == connect(connect(connect(connect(w2, noise, highpass),
                                    highpass, lowpass),
                            lowpass, gain),
                    gain, w.this.masterGain)
      w4 == stop(start(w3, noise, time), noise, time + 1500)
  IN scheduleCleanup(w4, noise, <<noise, highpass, lowpass, gain>>)

\* Variant: the bell partial of the ride goes straight to the destination.
playRide_Direct(w, time) ==
  LET ctx == w.this.audioContext
      noise == LastNode(w) + 1
      filter == noise + 1
      noiseGain == noise + 2
      osc == noise + 3
      oscGain == noise + 4
      w1 == setBuffer(createBufferSource(w, ctx), noise, w.this.noiseBuffer)
      w2 == createGain(createBiquadFilter(w1, ctx), ctx)
      w3 == connect(connect(connect(w2, noise, filter), filter, noiseGain),
                    noiseGain, w.this.masterGain)
      w4 == createGain(createOscillator(w3, ctx), ctx)
      w5 == connect(connect(w4, osc, oscGain), oscGain, Destination)
      w6 == stop(start(w5, noise, time), noise, time + 600)
      w7 == stop(start(w6, osc, time), osc, time + 400)
      w8 == scheduleCleanup(w7, noise, <<noise, filter, noiseGain>>)
  IN scheduleCleanup(w8, osc, <<osc, oscGain>>)

playRide(w, time) ==
  LET ctx == w.this.audioContext
      noise == LastNode(w) + 1
      filter == noise + 1
      noiseGain == noise + 2
      osc == noise + 3
      oscGain == noise + 4
      w1 == setBuffer(createBufferSource(w, ctx), noise, w.this.noiseBuffer)
      w2 == createGain(createBiquadFilter(w1, ctx), ctx)
      w3 == connect(connect(connect(w2, noise, filter), filter, noiseGain),
                    noiseGain, w.this.masterGain)
      w4 == createGain(createOscillator(w3, ctx), ctx)
      w5 == connect(connect(w4, osc, oscGain), oscGain, w.this.masterGain)
      w6 == stop(start(w5, noise, time), noise, time + 600)
      w7 == stop(start(w6, osc, time), osc, time + 400)
      w8 == scheduleCleanup(w7, noise, <<noise, filter, noiseGain>>)
  IN scheduleCleanup(w8, osc, <<osc, oscGain>>)

playSynth(w, time) ==
  LET ctx == w.this.audioContext
      osc == LastNode(w) + 1
      filter == osc + 1
      gain == osc + 2
      w1 == createGain(createBiquadFilter(createOscillator(w, ctx), ctx), ctx)
      w2 == connect(connect(connect(w1, osc, filter), filter, gain),
                    gain, w.this.masterGain)
      w3 == stop(start(w2, osc, time), osc, time + 300)
  IN scheduleCleanup(w3, osc, <<osc, filter, gain>>)

\* Variant: the switch has no case for 'synth'.
voice_NoSynth(w, soundName, now) ==
  CASE soundName = "kick" -> playKick(w, now)
    [] soundName = "snare" -> playSnare(w, now)
    [] soundName = "hihat" -> playHihat(w, now)
    [] soundName = "clap" -> playClap(w, now)
    [] soundName = "tom1" -> playTom(w, now, 200, 100)
    [] soundName = "tom2" -> playTom(w, now, 120, 60)
    [] soundName = "crash" -> playCrash(w, now)
    [] soundName = "ride" -> playRide(w, now)
    [] OTHER -> w

\* The switch of play() (lines 81-111); an unknown name is only logged.
voice(w, soundName, now) ==
  CASE soundName = "kick" -> playKick(w, now)
    [] soundName = "snare" -> playSnare(w, now)
    [] soundName = "hihat" -> playHihat(w, now)
    [] soundName = "clap" -> playClap(w, now)
    [] soundName = "tom1" -> playTom(w, now, 200, 100)
    [] soundName = "tom2" -> playTom(w, now, 120, 60)
    [] soundName = "crash" -> playCrash(w, now)
    [] soundName = "ride" -> playRide(w, now)
    [] soundName = "synth" -> playSynth(w, now)
    [] OTHER -> w

\* The resume of lines 75-77.
ensureRunning(w) ==
  IF w.audio.contexts[w.this.audioContext].state = "suspended"
  THEN resume(w, w.this.audioContext)
  ELSE w

\* Variant: play() without its guard reads the state of a null context,
\* a TypeError.
play_NoGuard(w, soundName) ==
  IF w.this.audioContext = NoObject THEN [w EXCEPT !.thrown = TRUE]
  ELSE voice(ensureRunning([w EXCEPT !.audio.plays = @ + 1]), soundName, 0)

\* play(soundName).  plays numbers the calls that get past the guard.
play(w, soundName) ==
  IF w.this.audioContext = NoObject THEN w
  ELSE voice(ensureRunning([w EXCEPT !.audio.plays = @ + 1]), soundName, 0)

\* Variant: setVolume() without the upper clamp.
setVolume_NoCeiling(w, value) ==
  IF w.this.masterGain # NoObject
  THEN [w EXCEPT !.audio.nodes[w.this.masterGain].value =
                    Max(MinVolume * GainUnit, value)]
  ELSE w

\* setVolume(value), value in units of 1 / GainUnit.
setVolume(w, value) ==
  IF w.this.masterGain # NoObject
  THEN [w EXCEPT !.audio.nodes[w.this.masterGain].value =
                    Max(MinVolume * GainUnit, Min(MaxVolume * GainUnit, value))]
  ELSE w

\* dispose()
dispose(w) ==
  IF w.this.audioContext # NoObject
  THEN [close(w, w.this.audioContext) EXCEPT !.this.audioContext = NoObject]
  ELSE w

----------------------------------------------------------------------------
(* The detector driven by its caller                                       *)
(*                                                                         *)
(* `call` is the last call made on the detector: the method, its argument  *)
(* (for detect: what the pass met), its return value, whether it threw     *)
(* and, for detect, the brightness change |brightness - previousBrightness|*)
(* of every pad as it was when the call was made.                          *)
(* `lastTrigger` remembers, for every pad, the time and the cooldownMs of  *)
(* its last trigger since the last reset().  `cleared` holds the expiries  *)
(* that the last reset() wiped, until the next frame is read; the call     *)
(* record of that pass keeps them.                                         *)
(* `twin` is a second detector, constructed like the first; only the       *)
(* paired calls further down act on it.                                    *)

NoDiff == [i \in Cells |-> 0]

NoTrigger == [i \in Cells |-> [at |-> 0, ms |-> 0]]

DiffOf(this, env) ==
  [i \in Cells |-> Abs(BrightnessOf(env.scene, i) - this.previousBrightness[i])]

InSeq(i, seq) == \E k \in 1..Len(seq) : seq[k] = i

\* A detect() pass on detector `this` that gets to read its frame.
ReadsFrame(this, env) ==
  /\ this.video # NULL /\ this.ctx # NoContext
  /\ env.readyState >= HAVE_CURRENT_DATA
  /\ env.throws \notin {"drawImage", "getImageData"}

Call(op, arg, ret) ==
  [op |-> op, arg |-> arg, ret |-> ret, thrown |-> FALSE, diff |-> NoDiff,
   cleared |-> NoDiff]

\* What a handler did: whether it ran a pass of loop() beyond the isRunning
\* guard, whether detect() read a frame on that pass, what the catch block
\* of loop() caught (an exception of detect() or of a trigger handler), the
\* array detect() returned to that pass, the names drums.play() was called
\* with and the pads that were given the class 'triggered'.
NewLog ==
  [looped |-> FALSE, read |-> FALSE, caught |-> "none", triggered |-> <<>>,
   played |-> <<>>, flashed |-> <<>>]

\* new NeonDrum() and the page around it: no engine, no detector, not
\* running, no animation frame requested, no stream on the video element.
\* engines are the SynthDrums objects made so far (this.drums is the number
\* of one, or NoObject), streams tells of every camera stream handed out
\* whether its track is live, starts are the calls of start() with the
\* await each one stands at, the stream and the engine each one got and
\* whether its catch block ran, frames are the pending requestAnimationFrame
\* handles and handles counts the handles given out, flashing are the pads
\* of class 'triggered', passes counts the passes of loop() made while
\* running, log is the log of the last handler that ran such a pass, and
\* stopped tells whether stop() was called and start() has not been called
\* since.
NeonDrum ==
  [drums |-> NoObject, detector |-> NoObject, isRunning |-> FALSE,
   animationId |-> NoObject, srcObject |-> NoObject,
   engines |-> <<>>, streams |-> <<>>, starts |-> <<>>,
   frames |-> {}, handles |-> 0, flashing |-> {}, passes |-> 0,
   log |-> NewLog, stopped |-> FALSE]

\* The second detector and its last result.  Once a pass of both detectors
\* has read a frame (timed), offset is the twin's clock reading minus the
\* first detector's on that pass, and steady tells whether every later pass
\* kept that offset.
NewTwin ==
  [this |-> DefaultDetector, ret |-> <<>>, timed |-> FALSE, offset |-> 0,
   steady |-> TRUE]

\* The diagnostic script before it is run from the console.
NoSampler ==
  [sampleInterval |-> "none", frameCount |-> 0, reports |-> 0,
   caught |-> FALSE, throws |-> FALSE]

Init ==
  /\ detector = DefaultDetector
  /\ call = Call("new", <<>>, <<>>)
  /\ lastTrigger = NoTrigger
  /\ cleared = NoDiff
  /\ twin = NewTwin
  /\ drums = SynthDrums
  /\ audio = NoAudio
  /\ app = NeonDrum
  /\ diag = NoSampler

DoInit ==
  \E debugCanvas \in DebugCanvases :
    /\ detector' = init(detector, "video", debugCanvas)
    /\ call' = Call("init", <<debugCanvas>>, <<>>)
    /\ UNCHANGED <<lastTrigger, cleared>>

Detect(envs) ==
  \E env \in envs :
    \E r \in {detect(detector, env)}, read \in {ReadsFrame(detector, env)} :
       /\ detector' = r.this
       /\ call' = [op |-> "detect", arg |-> env, ret |-> r.ret, thrown |-> r.thrown,
                   diff |-> IF read THEN DiffOf(detector, env) ELSE NoDiff,
                   cleared |-> IF read THEN cleared ELSE NoDiff]
       /\ lastTrigger' =
            [i \in Cells |->
               IF read /\ InSeq(i, r.ret)
               THEN [at |-> env.now, ms |-> detector.cooldownMs]
               ELSE lastTrigger[i]]
       /\ cleared' = IF read THEN NoDiff ELSE cleared

SetThreshold(values) ==
  \E value \in values :
    /\ detector' = setThreshold(detector, value)
    /\ call' = Call("setThreshold", <<value>>, <<>>)
    /\ UNCHANGED <<lastTrigger, cleared>>

SetCooldown(values) ==
  \E ms \in values :
    /\ detector' = setCooldown(detector, ms)
    /\ call' = Call("setCooldown", <<ms>>, <<>>)
    /\ UNCHANGED <<lastTrigger, cleared>>

DoGetParams ==
  /\ detector' = detector
  /\ call' = Call("getParams", <<>>, getParams(detector))
  /\ UNCHANGED <<lastTrigger, cleared>>

DoReset ==
  /\ detector' = reset(detector)
  /\ call' = Call("reset", <<>>, <<>>)
  /\ lastTrigger' = NoTrigger
  /\ cleared' = detector.cooldowns

DoDetect == Detect(Envs)

DoSetThreshold == SetThreshold(ThresholdInputs)

DoSetCooldown == SetCooldown(CooldownInputs)

Next ==
  \/ DoInit /\ UNCHANGED <<twin, drums, audio, app, diag>>
  \/ DoDetect /\ UNCHANGED <<twin, drums, audio, app, diag>>
  \/ DoSetThreshold /\ UNCHANGED <<twin, drums, audio, app, diag>>
  \/ DoSetCooldown /\ UNCHANGED <<twin, drums, audio, app, diag>>
  \/ DoGetParams /\ UNCHANGED <<twin, drums, audio, app, diag>>
  \/ DoReset /\ UNCHANGED <<twin, drums, audio, app, diag>>

Spec == Init /\ [][Next]_vars

----------------------------------------------------------------------------
(* The configuration interface alone: setters called with values below, on *)
(* and above each end of their ranges, and getParams().                    *)

ConfigThresholds == {-1, 0, 1, 2, 50, 99, 100, 101, 1000}

ConfigCooldowns == {-1, 0, 10, 49, 50, 51, 500, 999, 1000, 1001, 5000}

ConfigSetThreshold == SetThreshold(ConfigThresholds)

ConfigSetCooldown == SetCooldown(ConfigCooldowns)

ConfigNext ==
  \/ DoInit /\ UNCHANGED <<twin, drums, audio, app, diag>>
  \/ ConfigSetThreshold /\ UNCHANGED <<twin, drums, audio, app, diag>>
  \/ ConfigSetCooldown /\ UNCHANGED <<twin, drums, audio, app, diag>>
  \/ DoGetParams /\ UNCHANGED <<twin, drums, audio, app, diag>>
  \/ DoReset /\ UNCHANGED <<twin, drums, audio, app, diag>>

SpecConfig == Init /\ [][ConfigNext]_vars

----------------------------------------------------------------------------
(* The detector at the threshold boundary: the lowest, the default, a      *)
(* middle and the highest threshold, and frames whose centre pad changes   *)
(* by exactly the threshold and by the threshold plus one.                 *)

BoundaryThresholds == {0, 50, 1000}

BoundaryEnvs ==
  {[readyState |-> HAVE_CURRENT_DATA, throws |-> "none", scene |-> scene,
    now |-> now] : scene \in BoundaryScenes, now \in Times}

BoundaryDetect == Detect(BoundaryEnvs)

BoundarySetThreshold == SetThreshold(BoundaryThresholds)

BoundaryNext ==
  \/ DoInit /\ UNCHANGED <<twin, drums, audio, app, diag>>
  \/ BoundaryDetect /\ UNCHANGED <<twin, drums, audio, app, diag>>
  \/ BoundarySetThreshold /\ UNCHANGED <<twin, drums, audio, app, diag>>
  \/ DoReset /\ UNCHANGED <<twin, drums, audio, app, diag>>

SpecBoundary == Init /\ [][BoundaryNext]_vars

----------------------------------------------------------------------------
(* Detectors made with options of the caller's choice: a threshold and a   *)
(* cooldown that are missing (0), on an end of their ranges and outside;   *)
(* the detector made is bound to a video, its setters are called and it    *)
(* makes passes.                                                           *)

OptionThresholds == {0, -5, 100, 500}

OptionCooldowns == {0, -100, 50, 5000}

\* detector = new MotionDetector({ threshold, cooldownMs })
DoConstruct ==
  \E threshold \in OptionThresholds, cooldownMs \in OptionCooldowns :
    \E options \in {[NoOptions EXCEPT !.threshold = threshold,
                                      !.cooldownMs = cooldownMs]} :
      /\ detector' = MotionDetector(options)
      /\ call' = Call("new", <<options>>, <<>>)
      /\ lastTrigger' = NoTrigger
      /\ cleared' = NoDiff

\* The passes of these detectors: the centre pad dark or lit, at any time.
OptionsEnvs ==
  {[readyState |-> HAVE_CURRENT_DATA, throws |-> "none", scene |-> scene,
    now |-> now] : scene \in {DarkScene, SceneOf(21, 0)}, now \in Times}

OptionsDetect == Detect(OptionsEnvs)

OptionsNext ==
  \/ DoConstruct /\ UNCHANGED <<twin, drums, audio, app, diag>>
  \/ DoInit /\ UNCHANGED <<twin, drums, audio, app, diag>>
  \/ OptionsDetect /\ UNCHANGED <<twin, drums, audio, app, diag>>
  \/ DoSetThreshold /\ UNCHANGED <<twin, drums, audio, app, diag>>
  \/ DoSetCooldown /\ UNCHANGED <<twin, drums, audio, app, diag>>

SpecOptions == Init /\ [][OptionsNext]_vars

----------------------------------------------------------------------------
(* Two detectors side by side: the same calls with the same arguments are  *)
(* made on both and every pass shows both the same frame.  Each detector   *)
(* reads the clock for itself (line 340), so the two readings of a pass    *)
(* are chosen separately.                                                  *)

PairScenes == {DarkScene, SceneOf(21, 0)}

PairEnvs ==
  {[readyState |-> HAVE_CURRENT_DATA, throws |-> "none", scene |-> scene,
    now |-> now] : scene \in PairScenes, now \in Times}

PairInit ==
  /\ DoInit
  /\ twin' = [twin EXCEPT !.this = init(@, "video", call'.arg[1])]

PairDetect ==
  /\ Detect(PairEnvs)
  /\ \E read \in {ReadsFrame(detector, call'.arg)} :
       \E now2 \in IF read THEN Times ELSE {0} :
         \E r \in {detect(twin.this, [call'.arg EXCEPT !.now = now2])} :
            twin' = [this |-> r.this,
                     ret |-> r.ret,
                     timed |-> twin.timed \/ read,
                     offset |-> IF read /\ ~twin.timed
                                THEN now2 - call'.arg.now ELSE twin.offset,
                     steady |-> /\ twin.steady
                                /\ read /\ twin.timed
                                     => now2 - call'.arg.now = twin.offset]

PairSetThreshold ==
  /\ SetThreshold(ThresholdInputs)
  /\ twin' = [twin EXCEPT !.this = setThreshold(@, call'.arg[1])]

PairSetCooldown ==
  /\ SetCooldown(CooldownInputs)
  /\ twin' = [twin EXCEPT !.this = setCooldown(@, call'.arg[1])]

PairReset ==
  /\ DoReset
  /\ twin' = [twin EXCEPT !.this = reset(@)]

PairNext ==
  \/ PairInit /\ UNCHANGED <<drums, audio, app, diag>>
  \/ PairDetect /\ UNCHANGED <<drums, audio, app, diag>>
  \/ PairSetThreshold /\ UNCHANGED <<drums, audio, app, diag>>
  \/ PairSetCooldown /\ UNCHANGED <<drums, audio, app, diag>>
  \/ PairReset /\ UNCHANGED <<drums, audio, app, diag>>

SpecPair == Init /\ [][PairNext]_vars

----------------------------------------------------------------------------
(* A detector with the debug sink bound next to one without.  Both are     *)
(* shown the same frames at the same clock readings and get the same       *)
(* setter calls and resets; painting the sink may throw.                   *)

DebugThrows == {"none", "drawDebug"}

DebugEnvs ==
  [readyState : {HAVE_CURRENT_DATA}, throws : DebugThrows, scene : PairScenes,
   now : Times]

DebugInit ==
  /\ detector' = init(detector, "video", TRUE)
  /\ twin' = [twin EXCEPT !.this = init(@, "video", FALSE)]
  /\ call' = Call("init", <<TRUE>>, <<>>)
  /\ UNCHANGED <<lastTrigger, cleared>>

DebugDetect ==
  /\ Detect(DebugEnvs)
  /\ \E r \in {detect(twin.this, call'.arg)} :
       twin' = [twin EXCEPT !.this = r.this, !.ret = r.ret]

DebugNext ==
  \/ DebugInit /\ UNCHANGED <<drums, audio, app, diag>>
  \/ DebugDetect /\ UNCHANGED <<drums, audio, app, diag>>
  \/ PairSetThreshold /\ UNCHANGED <<drums, audio, app, diag>>
  \/ PairSetCooldown /\ UNCHANGED <<drums, audio, app, diag>>
  \/ PairReset /\ UNCHANGED <<drums, audio, app, diag>>

SpecDebug == Init /\ [][DebugNext]_vars

----------------------------------------------------------------------------
(* The detector in front of cameras of two aspect ratios: 4:3, the ratio   *)
(* of the detection buffer, and 2:1.                                       *)

\* What a pass meets: a current frame of one of the two cameras.
CropEnvs ==
  [readyState : {HAVE_CURRENT_DATA}, throws : {"none"}, scene : WideScenes,
   now : Times, videoWidth : {DefaultWidth, WideWidth}, side : SideLevels]

\* The picture env tells of.
CameraFrame(env) ==
  IF env.videoWidth = WideWidth THEN WideFrame(env.scene, env.side)
  ELSE VideoFrame(env.scene)

CropDetect ==
  \E env \in CropEnvs :
    \E r \in {detectOn(detector, env, CameraFrame(env))},
       read \in {ReadsFrame(detector, env)} :
       /\ detector' = r.this
       /\ call' = [op |-> "detect", arg |-> env, ret |-> r.ret, thrown |-> r.thrown,
                   diff |-> NoDiff, cleared |-> NoDiff]
       /\ lastTrigger' =
            [i \in Cells |->
               IF read /\ InSeq(i, r.ret)
               THEN [at |-> env.now, ms |-> detector.cooldownMs]
               ELSE lastTrigger[i]]
       /\ cleared' = NoDiff

CropNext ==
  \/ DoInit /\ UNCHANGED <<twin, drums, audio, app, diag>>
  \/ CropDetect /\ UNCHANGED <<twin, drums, audio, app, diag>>
  \/ DoReset /\ UNCHANGED <<twin, drums, audio, app, diag>>

SpecCrop == Init /\ [][CropNext]_vars

----------------------------------------------------------------------------
(* The engine driven by its caller and by the browser.  The browser brings *)
(* a resuming context up, suspends a running one (the page lost focus) and *)
(* ends a started source whose stop was scheduled, which runs the source's *)
(* onended handler; the sources one play() call started end in the order   *)
(* of their stop times.  init() goes on after its await once the context   *)
(* it waits for is no longer suspended.                                    *)

MaxInits == 2

MaxPlays == 2

VoiceNames ==
  {"kick", "snare", "hihat", "clap", "tom1", "tom2", "crash", "ride", "synth"}

\* The names play() is called with in the life-cycle runs: a voice and a
\* name that is no voice.
LifeCycleNames == {"kick", "cowbell"}

\* setVolume arguments, in units of 1 / GainUnit: -0.5, 0.5, 1.5.
Volumes == {-5, 5, 15}

World == [this |-> drums, audio |-> audio, thrown |-> FALSE]

EngineCall(w, op, arg) ==
  /\ drums' = w.this
  /\ audio' = w.audio
  /\ call' = [Call(op, arg, <<>>) EXCEPT !.thrown = w.thrown]
  /\ UNCHANGED <<detector, lastTrigger, cleared, twin, app, diag>>

\* init() is called on an engine that holds no context: a new one, or one
\* that was disposed of.
DrumsInit(states) ==
  /\ audio.awaiting = NoObject
  /\ drums.audioContext = NoObject
  /\ Len(audio.contexts) < MaxInits
  /\ \E state \in states :
       EngineCall(initStart(World, state), "drums.init", <<state>>)

\* init() after its await (lines 30-32).
InitReturns ==
  /\ audio.awaiting # NoObject
  /\ audio.contexts[audio.awaiting].state # "suspended"
  /\ EngineCall([World EXCEPT !.audio.awaiting = NoObject], "drums.init returns", <<>>)

Play(names, limit) ==
  /\ audio.plays < limit
  /\ \E soundName \in names :
       EngineCall(play(World, soundName), "play", <<soundName>>)

DrumsSetVolume ==
  \E value \in Volumes :
    EngineCall(setVolume(World, value), "setVolume", <<value>>)

DrumsDispose == EngineCall(dispose(World), "dispose", <<>>)

ContextResumed ==
  \E k \in 1..Len(audio.contexts) :
    /\ audio.contexts[k].resuming
    /\ EngineCall([World EXCEPT !.audio.contexts[k] =
                                  [state |-> "running", resuming |-> FALSE]],
                  "resumed", <<k>>)

ContextSuspended ==
  \E k \in 1..Len(audio.contexts) :
    /\ audio.contexts[k].state = "running"
    /\ EngineCall([World EXCEPT !.audio.contexts[k].state = "suspended"],
                  "suspended", <<k>>)

\* A source that is playing and will stop.
Sounding(n) ==
  /\ audio.nodes[n].started /\ ~audio.nodes[n].ended
  /\ audio.nodes[n].stopAt # NoStop

SourceEnded ==
  \E n \in 1..Len(audio.nodes) :
    /\ Sounding(n)
    /\ audio.contexts[audio.nodes[n].ctx].state = "running"
    /\ \A m \in 1..Len(audio.nodes) :
         Sounding(m) /\ audio.nodes[m].by = audio.nodes[n].by
           => audio.nodes[m].stopAt >= audio.nodes[n].stopAt
    /\ EngineCall(cleanup([World EXCEPT !.audio.nodes[n].ended = TRUE],
                          audio.nodes[n].onended, 1),
                  "onended", <<n>>)

LifeCyclePlay == Play(LifeCycleNames, MaxPlays - 1)

LifeCycleInit == DrumsInit(ContextStates)

AudioNext ==
  \/ LifeCycleInit
  \/ InitReturns
  \/ LifeCyclePlay
  \/ DrumsSetVolume
  \/ DrumsDispose
  \/ ContextResumed
  \/ ContextSuspended
  \/ SourceEnded

SpecAudio == Init /\ [][AudioNext]_vars

\* The voices alone: an engine, initialised once on a context that runs,
\* plays any name.
VoicesInit == DrumsInit({"running"})

VoicesPlay == Play(VoiceNames \cup {"cowbell"}, MaxPlays)

VoicesNext ==
  \/ VoicesInit
  \/ VoicesPlay
  \/ SourceEnded

SpecVoices == Init /\ [][VoicesNext]_vars

----------------------------------------------------------------------------
(* NeonDrum, the controller (script.js).  A controller operator takes and  *)
(* returns c: the controller and its page (this), the detector it made     *)
(* last (detector), the audio objects (audio) and the log of the handler   *)
(* that is running (log).                                                  *)

\* this.soundMap; pad i plays soundMap[i + 1].
soundMap ==
  <<"hihat", "snare", "crash", "tom1", "kick", "tom2", "clap", "ride", "synth">>

\* The engine this.drums, as the world of an engine operator.
DrumsOf(c) ==
  [this |-> c.this.engines[c.this.drums], audio |-> c.audio, thrown |-> FALSE]

\* The controller after an engine operator has run on this.drums and left w.
onDrums(c, w) ==
  [c EXCEPT !.this.engines[c.this.drums] = w.this, !.audio = w.audio]

\* triggerCell(index), lines 195-209.  env.failPad and env.failAt tell for
\* which pad a call of the handler throws, and which call: the play of the
\* sound (line 201) or the first use of the pad's element (line 205).
triggerCell(c, index, env) ==
  LET soundName == soundMap[index + 1]
      fails == env.failPad = index
  IN IF c.this.drums # NoObject /\ fails /\ env.failAt = "play"
     THEN [c EXCEPT !.log.caught = "handler"]
     ELSE
       LET c1 == IF c.this.drums # NoObject
                 THEN [onDrums(c, play(DrumsOf(c), soundName)) EXCEPT
                         !.log.played = Append(@, soundName)]
                 ELSE c
       IN IF fails /\ env.failAt = "classList"
          THEN [c1 EXCEPT !.log.caught = "handler"]
          ELSE [c1 EXCEPT !.this.flashing = @ \cup {index},
                          !.log.flashed = Append(@, index)]

\* triggered.forEach(index => this.triggerCell(index)), from element k on;
\* an exception of a handler ends the forEach.
RECURSIVE forEachTriggered(_, _, _, _)
forEachTriggered(c, triggered, k, env) ==
  IF k > Len(triggered) \/ c.log.caught # "none" THEN c
  ELSE forEachTriggered(triggerCell(c, triggered[k], env), triggered, k + 1, env)

\* this.animationId = requestAnimationFrame(() => this.loop())
requestLoop(c) ==
  [c EXCEPT !.this.handles = @ + 1,
            !.this.frames = @ \cup {c.this.handles + 1},
            !.this.animationId = c.this.handles + 1]

\* The try block of loop() and what its catch block sees, lines 175-186,
\* with the video as env tells.  Calling detect() on this.detector while it
\* is null throws, and so may detect().
tryBlock(c, env) ==
  IF c.this.detector = NoObject THEN [c EXCEPT !.log.caught = "detect"]
  ELSE
    LET r == detect(c.detector, env)
        c1 == [c EXCEPT !.detector = r.this,
                        !.log.read = ReadsFrame(c.detector, env),
                        !.log.triggered = IF r.thrown THEN <<>> ELSE r.ret]
    IN IF r.thrown THEN [c1 EXCEPT !.log.caught = "detect"]
       ELSE forEachTriggered(c1, r.ret, 1, env)

\* Variant: after an exception the next frame is not requested.
loop_StopOnError(c, env) ==
  IF ~c.this.isRunning THEN c
  ELSE
    LET c1 == tryBlock([c EXCEPT !.log.looped = TRUE, !.this.passes = @ + 1], env)
    IN IF c1.log.caught # "none" THEN c1 ELSE requestLoop(c1)

\* loop(), lines 172-190: the catch block only logs, and the next frame is
\* requested whatever the try block did.
loop(c, env) ==
  IF ~c.this.isRunning THEN c
  ELSE requestLoop(tryBlock([c EXCEPT !.log.looped = TRUE,
                                      !.this.passes = @ + 1], env))

\* Lines 158-161 and 255-258: the tracks of the stream on the video element
\* are stopped and the stream is taken off the element.
releaseCamera(c) ==
  IF c.this.srcObject = NoObject THEN c
  ELSE [c EXCEPT !.this.streams[c.this.srcObject] = FALSE,
                 !.this.srcObject = NoObject]

\* Lines 162-165 and 261-264: the engine is disposed of and let go.
releaseDrums(c) ==
  IF c.this.drums = NoObject THEN c
  ELSE [onDrums(c, dispose(DrumsOf(c))) EXCEPT !.this.drums = NoObject]

\* The catch block of start(), lines 153-166, for the call numbered s.
startCatch(c, s) ==
  [releaseDrums(releaseCamera(c)) EXCEPT !.this.starts[s].pc = "settled",
                                         !.this.starts[s].failed = TRUE]

\* start() up to `await this.drums.init()` (lines 103-118).  The page has a
\* camera API and an AudioContext class.  The new context comes up in
\* `state`, or its constructor throws and init() is rejected.
startToInit(c, state, throws) ==
  LET w == [this |-> SynthDrums, audio |-> c.audio, thrown |-> FALSE]
      e == IF throws THEN [w EXCEPT !.thrown = TRUE] ELSE initStart(w, state)
  IN [c EXCEPT !.this.engines = Append(@, e.this),
               !.this.drums = Len(c.this.engines) + 1,
               !.audio = e.audio,
               !.this.starts = Append(@, [pc |-> "init", stream |-> NoObject,
                                          drums |-> Len(c.this.engines) + 1,
                                          failed |-> FALSE])]

\* start() from the return of init() to the await of getUserMedia (120-129).
startAfterInit(c, s) == [c EXCEPT !.this.starts[s].pc = "camera"]

\* start() from the stream to `await this.video.play()` (lines 132-133).
startAfterCamera(c, s) ==
  [c EXCEPT !.this.streams = Append(@, TRUE),
            !.this.srcObject = Len(c.this.streams) + 1,
            !.this.starts[s].pc = "video",
            !.this.starts[s].stream = Len(c.this.streams) + 1]

\* start() after video.play(), lines 136-151: the first pass of loop() is
\* made by start() itself.
startAfterVideo(c, s, sliders, env) ==
  LET options == [NoOptions EXCEPT !.threshold = sliders.threshold,
                                   !.cooldownMs = sliders.cooldownMs]
      c1 == [c EXCEPT !.detector = init(MotionDetector(options), "video", TRUE),
                      !.this.detector = 1,
                      !.this.isRunning = TRUE]
  IN [loop(c1, env) EXCEPT !.this.starts[s].pc = "settled"]

\* start() from the click to its first await that takes time: init() on a
\* context that runs returns without waiting, and a rejected init() is caught
\* at once.
clickStart(c, state, throws) ==
  LET c1 == startToInit(c, state, throws)
      s == Len(c1.this.starts)
  IN IF throws THEN startCatch(c1, s)
     ELSE IF state = "suspended" THEN c1
     ELSE startAfterInit(c1, s)

\* stop(), lines 246-265.
stopLoop(c) ==
  LET c1 == [c EXCEPT !.this.isRunning = FALSE]
      c2 == IF c1.this.animationId = NoObject THEN c1
            ELSE [c1 EXCEPT !.this.frames = @ \ {c1.this.animationId},
                            !.this.animationId = NoObject]
  IN releaseDrums(releaseCamera(c2))

----------------------------------------------------------------------------
(* The controller driven by the user and the browser: clicks on the start  *)
(* button, stop(), the camera request and video.play() settling either     *)
(* way, and animation frames.                                              *)
(* A video element without a stream has no current frame; replacing or     *)
(* removing the stream of the element rejects a pending play().            *)

MaxStarts == 2

MaxFrames == 3

\* The scene the running controller is shown: pads 0 and 4 lit.
LoopScenes == {SceneOf(21, 200)}

\* The values of the two sliders when start() reads them.
Sliders == {[threshold |-> DefaultThreshold, cooldownMs |-> DefaultCooldownMs]}

\* The contexts the browser hands out to the controller.
LoopContextStates == {"running"}

\* No pad's handler throws.
NoPad == -1

NoFrame ==
  [readyState |-> HAVE_CURRENT_DATA - 1, throws |-> "none", scene |-> DarkScene,
   now |-> 0, failPad |-> NoPad, failAt |-> "none"]

LoopEnvs(this) ==
  IF this.srcObject = NoObject THEN {NoFrame}
  ELSE {NoFrame}
       \cup {[readyState |-> HAVE_CURRENT_DATA, throws |-> "none",
              scene |-> scene, now |-> MinCooldown,
              failPad |-> NoPad, failAt |-> "none"] : scene \in LoopScenes}

\* The controller at the start of a handler.
Controller ==
  [this |-> app, detector |-> detector, audio |-> audio, log |-> NewLog]

\* The state a handler leaves behind.
Handled(c) ==
  /\ app' = [c.this EXCEPT !.log = IF c.log.looped THEN c.log ELSE @]
  /\ detector' = c.detector
  /\ audio' = c.audio
  /\ UNCHANGED <<call, lastTrigger, cleared, twin, drums, diag>>

ClickStart ==
  /\ Len(app.starts) < MaxStarts
  /\ \E state \in LoopContextStates, throws \in BOOLEAN :
       Handled([clickStart(Controller, state, throws) EXCEPT
                  !.this.stopped = FALSE])

CameraSettles ==
  \E s \in 1..Len(app.starts) :
    /\ app.starts[s].pc = "camera"
    /\ \E granted \in BOOLEAN :
         Handled(IF granted THEN startAfterCamera(Controller, s)
                 ELSE startCatch(Controller, s))

\* video.play() of start() number s settles; envs is what a pass of loop()
\* may meet.
VideoPlay(envs) ==
  \E s \in 1..Len(app.starts) :
    /\ app.starts[s].pc = "video"
    /\ \E playing \in IF app.srcObject = app.starts[s].stream
                      THEN BOOLEAN ELSE {FALSE} :
         \E sliders \in Sliders, env \in envs :
           Handled(IF playing
                   THEN startAfterVideo(Controller, s, sliders, env)
                   ELSE startCatch(Controller, s))

\* The browser runs a pending callback of requestAnimationFrame.
Frame(envs) ==
  \E id \in app.frames :
    /\ app.isRunning => app.handles < MaxFrames
    /\ \E env \in envs :
         Handled(loop([Controller EXCEPT !.this.frames = @ \ {id}], env))

VideoSettles == VideoPlay(LoopEnvs(app))

AnimationFrame == Frame(LoopEnvs(app))

\* stop() before the first start() finds nothing to stop.
Stop ==
  /\ app.starts # <<>>
  /\ Handled([stopLoop(Controller) EXCEPT !.this.stopped = TRUE])

LoopNext ==
  \/ ClickStart
  \/ CameraSettles
  \/ VideoSettles
  \/ AnimationFrame
  \/ Stop

SpecLoop == Init /\ [][LoopNext]_vars

\* The loop with passes that fail: the video has no current frame, painting
\* the debug sink throws (detect() throws), or the handler of a triggered
\* pad throws.
LiveFaults ==
  {[throws |-> "drawDebug", failPad |-> NoPad, failAt |-> "none"],
   [throws |-> "none", failPad |-> 4, failAt |-> "play"]}

LiveEnvs(this) ==
  IF this.srcObject = NoObject THEN {NoFrame}
  ELSE LoopEnvs(this)
       \cup {[readyState |-> HAVE_CURRENT_DATA, throws |-> f.throws,
              scene |-> scene, now |-> MinCooldown,
              failPad |-> f.failPad, failAt |-> f.failAt] :
                scene \in LoopScenes, f \in LiveFaults}

LiveVideoSettles == VideoPlay(LiveEnvs(app))

LiveFrame == Frame(LiveEnvs(app))

LiveNext ==
  \/ ClickStart
  \/ CameraSettles
  \/ LiveVideoSettles
  \/ LiveFrame
  \/ Stop

SpecLive == Init /\ [][LiveNext]_vars

----------------------------------------------------------------------------
(* The diagnostic script (diag.js) run from the console: it samples the    *)
(* video element on a timer of its own and reports once it has counted     *)
(* SAMPLE_FRAMES samples.                                                  *)
(* sampleInterval is "none" before the timer is set, then "active", then   *)
(* "cleared"; reports counts the calls of analyzeAndReport(), caught tells *)
(* whether the catch block of the sampler has run, and throws is the state *)
(* of the browser: whether reading the canvas back throws at present.      *)

SAMPLE_FRAMES == 60

\* The script up to setInterval: it returns at once without a camera stream
\* on the video element or without a detector on window.neonDrum.
runDiagnostic(d, this) ==
  IF this.srcObject = NoObject \/ this.detector = NoObject THEN d
  ELSE [d EXCEPT !.sampleInterval = "active", !.frameCount = 0]

\* The callback of setInterval: a sample that throws is caught and is not
\* counted.
sampleTick(d) ==
  IF d.frameCount >= SAMPLE_FRAMES
  THEN [d EXCEPT !.sampleInterval = "cleared", !.reports = @ + 1]
  ELSE IF d.throws THEN [d EXCEPT !.caught = TRUE]
  ELSE [d EXCEPT !.frameCount = @ + 1]

RunDiagnostic ==
  /\ diag.sampleInterval = "none"
  /\ diag' = runDiagnostic(diag, app)
  /\ UNCHANGED <<detector, call, lastTrigger, cleared, twin, drums, audio, app>>

SampleTick ==
  /\ diag.sampleInterval = "active"
  /\ diag' = sampleTick(diag)
  /\ UNCHANGED <<detector, call, lastTrigger, cleared, twin, drums, audio, app>>

\* Reading the canvas back starts or stops throwing.
ReadbackChanges ==
  /\ diag' = [diag EXCEPT !.throws = ~@]
  /\ UNCHANGED <<detector, call, lastTrigger, cleared, twin, drums, audio, app>>

\* video.play() settles before the video has a frame: the first pass of
\* loop() reads nothing.
SamplerVideoSettles == VideoPlay({NoFrame})

\* The sampler reads the video element and the size and threshold of the
\* detector, which no pass of loop() changes: animation frames are left out.
SamplerNext ==
  \/ ClickStart
  \/ CameraSettles
  \/ SamplerVideoSettles
  \/ Stop
  \/ RunDiagnostic
  \/ SampleTick
  \/ ReadbackChanges

\* setInterval calls the sampler again and again until clearInterval.
SpecSampler == Init /\ [][SamplerNext]_vars /\ WF_vars(SampleTick)

----------------------------------------------------------------------------
(* Properties                                                              *)

\* The last call was a detect() pass that read its frame.
ReadFrameState == call.op = "detect" /\ ReadsFrame(detector, call.arg)

\* This step is a detect() pass that reads its frame.
PassReadsFrame == call'.op = "detect" /\ ReadsFrame(detector, call'.arg)

\* The threshold in the unit brightness is kept in.
ScaledThreshold(this) == this.threshold * BrightnessUnit(this)

\* C1 as stated: on every pass that reads a frame, pad i is in the result iff
\* its brightness change exceeds the threshold and the pass time is >= the
\* pad's cooldown expiry (so a pass exactly at the expiry triggers).
C1_TriggerAtOrAfterExpiry ==
  [][PassReadsFrame =>
       \A i \in Cells :
         InSeq(i, call'.ret) <=>
           /\ call'.diff[i] > ScaledThreshold(detector)
           /\ call'.arg.now >= detector.cooldowns[i]]_vars

\* C1 amended: on every pass that reads a frame, pad i is in the result iff
\* its brightness change exceeds the threshold and the pass time is strictly
\* after the pad's cooldown expiry; a pass exactly at the expiry does not
\* trigger.
C1_TriggerAfterExpiry ==
  [][PassReadsFrame =>
       \A i \in Cells :
         InSeq(i, call'.ret) <=>
           /\ call'.diff[i] > ScaledThreshold(detector)
           /\ call'.arg.now > detector.cooldowns[i]]_vars

\* A pass at exactly the expiry of a pad whose change exceeds the threshold
\* (it is left out) while another pad triggers.
C1_Witness ==
  /\ ReadFrameState
  /\ \E i, j \in Cells :
       /\ call.diff[i] > ScaledThreshold(detector)
       /\ call.arg.now = detector.cooldowns[i]
       /\ ~InSeq(i, call.ret)
       /\ InSeq(j, call.ret)

\* C2: a pad that triggered at time T while cooldownMs was C is in the result
\* of no later pass (before any reset()) whose time is before T + C, whatever
\* the frames and the setThreshold / setCooldown calls in between.
C2_CooldownEnforced ==
  [][PassReadsFrame =>
       \A i \in Cells :
         InSeq(i, call'.ret) =>
           call'.arg.now >= lastTrigger[i].at + lastTrigger[i].ms]_vars

\* A later pass inside the window T .. T + C on which the pad's change exceeds
\* the threshold and the pad is left out, after setCooldown() shortened
\* cooldownMs so far that the new value would have let it through.
C2_Witness ==
  /\ ReadFrameState
  /\ \E i \in Cells :
       /\ lastTrigger[i].at > 0
       /\ call.arg.now > lastTrigger[i].at
       /\ call.arg.now < lastTrigger[i].at + lastTrigger[i].ms
       /\ call.arg.now >= lastTrigger[i].at + detector.cooldownMs
       /\ call.diff[i] > ScaledThreshold(detector)
       /\ ~InSeq(i, call.ret)

\* C4: after every pass that reads a frame, previousBrightness[i] is the
\* brightness computed for pad i on that pass, for every pad, triggered or
\* not, in cooldown or not.
C4_BrightnessTracked ==
  ReadFrameState =>
    \A i \in Cells :
      detector.previousBrightness[i] = BrightnessOf(call.arg.scene, i)

\* A pass on which a pad in cooldown changed by more than the threshold: it is
\* left out of the result and its brightness is tracked all the same.
C4_Witness ==
  /\ ReadFrameState
  /\ \E i \in Cells :
       /\ call.diff[i] > ScaledThreshold(detector)
       /\ call.arg.now <= detector.cooldowns[i]
       /\ ~InSeq(i, call.ret)
       /\ detector.previousBrightness[i] = BrightnessOf(call.arg.scene, i)
       /\ detector.previousBrightness[i] # 0

\* What a pass does to one pad, from that pad's own data alone.
OwnOutcome(brightness, previous, cooldown, threshold, cooldownMs, now) ==
  LET fires == Abs(brightness - previous) > threshold /\ now > cooldown
  IN [fires |-> fires,
      previous |-> brightness,
      cooldown |-> IF fires THEN now + cooldownMs ELSE cooldown]

\* C5: on every pass, whether pad B triggers and the previousBrightness[B] and
\* cooldowns[B] it is left with are a function of B's own brightness, B's own
\* prior state, the configuration and the pass time; a pad that does not
\* trigger keeps its cooldown expiry.
C5_CellsIndependent ==
  [][PassReadsFrame =>
       \A B \in Cells :
         LET own == OwnOutcome(BrightnessOf(call'.arg.scene, B),
                               detector.previousBrightness[B],
                               detector.cooldowns[B],
                               ScaledThreshold(detector),
                               detector.cooldownMs,
                               call'.arg.now)
         IN /\ InSeq(B, call'.ret) = own.fires
            /\ detector'.previousBrightness[B] = own.previous
            /\ detector'.cooldowns[B] = own.cooldown
            /\ ~InSeq(B, call'.ret) => detector'.cooldowns[B] = detector.cooldowns[B]]_vars

\* A pass on which pad 0 triggers while pad 4, changed by more than the
\* threshold, sits in a cooldown of its own and keeps it.
C5_Witness ==
  /\ ReadFrameState
  /\ InSeq(0, call.ret)
  /\ ~InSeq(4, call.ret)
  /\ call.diff[4] > ScaledThreshold(detector)
  /\ detector.cooldowns[4] >= call.arg.now
  /\ detector.cooldowns[0] = call.arg.now + detector.cooldownMs
  /\ detector.cooldowns[4] # detector.cooldowns[0]

\* C6: detect() before init(), or while the video has no current frame,
\* returns [] and leaves the whole detector (per-pad state and configuration)
\* as it was.
C6_NotReadyNoOp ==
  [][(/\ call'.op = "detect"
      /\ \/ detector.video = NULL
         \/ detector.ctx = NoContext
         \/ call'.arg.readyState < HAVE_CURRENT_DATA)
       => /\ call'.ret = <<>>
          /\ ~call'.thrown
          /\ detector' = detector]_vars

\* A pass on a bound video without a current frame, made while the detector
\* holds brightness and cooldowns from earlier passes.
C6_Witness ==
  /\ call.op = "detect"
  /\ detector.video # NULL
  /\ call.arg.readyState < HAVE_CURRENT_DATA
  /\ call.ret = <<>>
  /\ \E i \in Cells : detector.previousBrightness[i] # 0
  /\ \E i \in Cells : detector.cooldowns[i] # 0

\* C7: when drawing or reading the frame throws, detect() throws nothing,
\* returns [] and leaves previousBrightness and cooldowns of all pads (and the
\* drawing context, so that a later pass reads a mirrored frame again) as
\* they were.
C7_ThrowSkipsFrame ==
  [][(/\ call'.op = "detect"
      /\ detector.video # NULL /\ detector.ctx # NoContext
      /\ call'.arg.readyState >= HAVE_CURRENT_DATA
      /\ call'.arg.throws # "none")
       => /\ call'.ret = <<>>
          /\ ~call'.thrown
          /\ detector'.previousBrightness = detector.previousBrightness
          /\ detector'.cooldowns = detector.cooldowns
          /\ detector'.ctx = detector.ctx]_vars

\* A pass whose drawImage threw, made while the detector holds brightness and
\* cooldowns from earlier passes.
C7_Witness ==
  /\ call.op = "detect"
  /\ detector.video # NULL
  /\ call.arg.readyState >= HAVE_CURRENT_DATA
  /\ call.arg.throws = "drawImage"
  /\ call.ret = <<>>
  /\ \E i \in Cells : detector.previousBrightness[i] # 0
  /\ \E i \in Cells : detector.cooldowns[i] # 0

\* All nine pads at previousBrightness 0 and cooldown expiry 0.
Zeroed(this) ==
  /\ this.previousBrightness = [i \in Cells |-> 0]
  /\ this.cooldowns = [i \in Cells |-> 0]

\* C9: reset() leaves previousBrightness and cooldowns 0 for all 9 pads; they
\* stay 0 until a frame is read, and on that pass a pad triggers exactly when
\* its brightness exceeds the threshold.
C9_ResetClears ==
  [][/\ call'.op = "reset" => Zeroed(detector')
     /\ (Zeroed(detector) /\ ~PassReadsFrame) => Zeroed(detector')
     /\ (Zeroed(detector) /\ PassReadsFrame) =>
          \A i \in Cells :
            InSeq(i, call'.ret) <=>
              BrightnessOf(call'.arg.scene, i) > ScaledThreshold(detector)]_vars

\* The first frame read after a reset(), on which a pad triggers at a time
\* before the cooldown expiry that the reset wiped.
C9_Witness ==
  /\ ReadFrameState
  /\ \E i \in Cells :
       /\ InSeq(i, call.ret)
       /\ call.cleared[i] > call.arg.now

\* C8: setThreshold(v) makes the threshold min(100, max(1, v)) and
\* setCooldown(v) makes cooldownMs min(1000, max(50, v)), so 0 -> 1,
\* 1000 -> 100, 10 -> 50 and 5000 -> 1000; calling the setter again with the
\* value it produced changes nothing; getParams() returns the threshold and
\* cooldownMs in force, and no call other than the two setters changes them.
C8_ConfigClamps ==
  [][ /\ call'.op = "setThreshold" =>
          LET v == call'.arg[1] IN
            /\ detector'.threshold = Min(100, Max(1, v))
            /\ v = 0 => detector'.threshold = 1
            /\ v = 1000 => detector'.threshold = 100
            /\ setThreshold(detector', detector'.threshold) = detector'
            /\ v = detector.threshold => detector' = detector
            /\ detector'.cooldownMs = detector.cooldownMs
      /\ call'.op = "setCooldown" =>
          LET v == call'.arg[1] IN
            /\ detector'.cooldownMs = Min(1000, Max(50, v))
            /\ v = 10 => detector'.cooldownMs = 50
            /\ v = 5000 => detector'.cooldownMs = 1000
            /\ setCooldown(detector', detector'.cooldownMs) = detector'
            /\ v = detector.cooldownMs => detector' = detector
            /\ detector'.threshold = detector.threshold
      /\ call'.op = "getParams" =>
            /\ call'.ret.threshold = detector.threshold
            /\ call'.ret.cooldownMs = detector.cooldownMs
            /\ detector' = detector
      /\ call'.op \notin {"setThreshold", "setCooldown"} =>
            /\ detector'.threshold = detector.threshold
            /\ detector'.cooldownMs = detector.cooldownMs
    ]_vars

\* getParams() reports a threshold clamped up to 1 and a cooldown clamped
\* down to 1000.
C8_Witness ==
  /\ call.op = "getParams"
  /\ call.ret.threshold = 1
  /\ call.ret.cooldownMs = 1000

\* C3: on every pass that reads a frame, a pad that is off cooldown (the
\* pass time is after its expiry) does not trigger when its brightness
\* change equals the threshold, and triggers when the change is the
\* threshold plus one, whatever threshold setThreshold() has left.
C3_ThresholdBoundary ==
  [][PassReadsFrame =>
       \A i \in Cells :
         call'.arg.now > detector.cooldowns[i] =>
           /\ call'.diff[i] = detector.threshold * BrightnessUnit(detector)
                => ~InSeq(i, call'.ret)
           /\ call'.diff[i] = (detector.threshold + 1) * BrightnessUnit(detector)
                => InSeq(i, call'.ret)]_vars

\* With the threshold raised to its maximum by setThreshold(), the centre
\* pad, never triggered since the last reset, changes by exactly the
\* threshold and stays out of the result.
C3_Witness ==
  /\ ReadFrameState
  /\ detector.threshold = MaxThreshold
  /\ call.diff[4] = detector.threshold * BrightnessUnit(detector)
  /\ detector.cooldowns[4] = 0
  /\ ~InSeq(4, call.ret)

\* C10 as stated: two detectors started alike and given the same
\* configuration calls and the same frames return the same triggers on
\* every pass.
C10_SameFrames ==
  call.op = "detect" => twin.ret = call.ret

\* C10 amended: two detectors started alike and given the same
\* configuration calls and the same frames, whose clock readings differ by
\* the same offset on every pass, return the same triggers on every pass and
\* track the same brightness; their cooldown expiries differ by that offset.
C10_SameFramesSameTiming ==
  call.op = "detect" /\ twin.steady =>
    /\ twin.ret = call.ret
    /\ twin.this.previousBrightness = detector.previousBrightness
    /\ \A i \in Cells :
         twin.this.cooldowns[i] =
           IF detector.cooldowns[i] = 0 THEN 0
           ELSE detector.cooldowns[i] + twin.offset

\* Both detectors, the twin's clock running a constant non-zero offset
\* ahead, refuse the centre pad because it is in cooldown although its
\* brightness changed by more than the threshold.
C10_Witness ==
  /\ ReadFrameState
  /\ twin.steady /\ twin.timed /\ twin.offset # 0
  /\ call.diff[4] > ScaledThreshold(detector)
  /\ ~InSeq(4, call.ret) /\ ~InSeq(4, twin.ret)
  /\ lastTrigger[4].at > 0
  /\ call.arg.now > lastTrigger[4].at

\* C11: every result of detect() holds only cell indices 0..8 and holds no
\* index twice.
C11_ResultIndices ==
  call.op = "detect" =>
    /\ \A k \in 1..Len(call.ret) : call.ret[k] \in 0..8
    /\ \A k, l \in 1..Len(call.ret) : call.ret[k] = call.ret[l] => k = l

\* A pass on which two pads trigger.
C11_Witness ==
  /\ ReadFrameState
  /\ Len(call.ret) >= 2

\* C12: in every state the detector holds exactly 9 previousBrightness
\* entries and exactly 9 cooldown entries, indexed 0..8.
C12_NineEntries ==
  /\ DOMAIN detector.previousBrightness = 0..8
  /\ DOMAIN detector.cooldowns = 0..8
  /\ detector.cellCount = 9

\* A reset() that wiped the expiry of a pad that had triggered.
C12_Witness ==
  /\ call.op = "reset"
  /\ \E i \in Cells : cleared[i] > 0

\* C14: play() with any name on an engine whose init() was never called
\* throws nothing, makes no node and changes nothing of the engine or of
\* the audio objects.
C14_PlayBeforeInit ==
  [][call'.op = "play" /\ audio.contexts = <<>> =>
       /\ ~call'.thrown
       /\ audio' = audio
       /\ drums' = drums]_vars

\* A voice was played on an engine that was never initialised.
C14_Witness ==
  /\ call.op = "play" /\ call.arg = <<"kick">>
  /\ audio.contexts = <<>>
  /\ drums = SynthDrums

\* C15: a play() made after init() was called and before init() has
\* returned from waiting for the context to resume makes and starts no node.
C15_PlayDuringInit ==
  [][call'.op = "play" /\ audio.awaiting # NoObject =>
       audio'.nodes = audio.nodes]_vars

\* The engine was initialised and then disposed of, and init() has not been
\* run again.
Disposed == drums.audioContext = NoObject /\ drums.masterGain # NoObject

\* C16: after dispose() and until init() is run again, play with any name,
\* setVolume and a second dispose make no node and change nothing of the
\* engine or of the audio objects, the master gain level included.
C16_DisposedIsTerminal ==
  [][Disposed /\ call'.op \in {"play", "setVolume", "dispose"} =>
       /\ audio' = audio
       /\ drums' = drums]_vars

\* An oscillator or a buffer source.
IsSource(node) == node.kind \in {"oscillator", "bufferSource"}

\* Whether the output of node n leads to node `to` over at most `hops`
\* connections.
RECURSIVE LeadsTo(_, _, _, _)
LeadsTo(nodes, n, to, hops) ==
  /\ hops > 0
  /\ \/ to \in nodes[n].out
     \/ \E k \in nodes[n].out \ {Destination} : LeadsTo(nodes, k, to, hops - 1)

\* The nodes the step has made.
MadeNodes == (Len(audio.nodes) + 1)..Len(audio'.nodes)

\* C17: play() throws nothing; with a name that is none of the 9 voices it
\* makes, connects and starts no node; with each of the 9 voice names, on an
\* initialised engine, it makes at least one source that is started and
\* whose output leads to the master gain, itself connected to the
\* destination.
C17_VoiceNames ==
  [][call'.op = "play" =>
       LET name == call'.arg[1] IN
         /\ ~call'.thrown
         /\ name \notin VoiceNames => audio'.nodes = audio.nodes
         /\ name \in VoiceNames /\ drums.audioContext # NoObject =>
              /\ \A n \in 1..Len(audio.nodes) : audio'.nodes[n] = audio.nodes[n]
              /\ \E n \in MadeNodes :
                   /\ IsSource(audio'.nodes[n])
                   /\ audio'.nodes[n].started
                   /\ LeadsTo(audio'.nodes, n, drums.masterGain, 4)
                   /\ Destination \in audio'.nodes[drums.masterGain].out]_vars

\* An unknown name was played on an initialised engine that had played a
\* voice before.
C17_Witness ==
  /\ call.op = "play" /\ call.arg = <<"cowbell">>
  /\ drums.audioContext # NoObject
  /\ Len(audio.nodes) > 1

\* C18: every source play() has started was started on a context in the
\* running state.
C18_RunningWhenStarted ==
  \A n \in 1..Len(audio.nodes) :
    audio.nodes[n].started => audio.nodes[n].stateAtStart = "running"

\* Node n is among the nodes the onended handler of source s disconnects.
CleanedBy(nodes, n, s) ==
  \E k \in 1..Len(nodes[s].onended) : nodes[s].onended[k] = n

\* The nodes made by play() calls: all but the master gain.
Transient(this, nodes) == (1..Len(nodes)) \ {this.masterGain}

\* Every source has ended.
AllEnded(nodes) ==
  \A s \in 1..Len(nodes) : IsSource(nodes[s]) => nodes[s].ended

\* C19: every node a play() call makes is handed, in that call, to the
\* onended handler of a source made by that call; the nodes handed to the
\* handler of a source that has ended are disconnected; and once every
\* source has ended no node made by play() is connected to anything.
C19_NoAccumulation ==
  [][/\ call'.op = "play" =>
          \A n \in MadeNodes :
            \E s \in MadeNodes :
              IsSource(audio'.nodes[s]) /\ CleanedBy(audio'.nodes, n, s)
     /\ \A s \in 1..Len(audio'.nodes) :
          audio'.nodes[s].ended =>
            \A n \in Transient(drums', audio'.nodes) :
              CleanedBy(audio'.nodes, n, s) => audio'.nodes[n].out = {}
     /\ AllEnded(audio'.nodes) =>
          \A n \in Transient(drums', audio'.nodes) : audio'.nodes[n].out = {}
    ]_vars

\* Two voices were played, one of them with a filter in its chain, and all
\* their sources have ended.
C19_Witness ==
  /\ audio.plays >= 2
  /\ \E n \in 1..Len(audio.nodes) : audio.nodes[n].kind = "biquadFilter"
  /\ \E n \in 1..Len(audio.nodes) : audio.nodes[n].kind = "oscillator"
  /\ AllEnded(audio.nodes)

\* The level of the engine's master gain, in units of 1 / GainUnit.
MasterLevel(this, nodes) == nodes[this.masterGain].value

\* C20: the master gain level of an initialised engine is within [0, 1]
\* after every step; it is 0.8 after init(); setVolume(v) makes it
\* min(1, max(0, v)) and changes no other node and no context.
C20_MasterGainRange ==
  [][/\ drums'.masterGain # NoObject =>
          /\ MasterLevel(drums', audio'.nodes) >= 0
          /\ MasterLevel(drums', audio'.nodes) <= 1 * GainUnit
     /\ call'.op = "drums.init" =>
          MasterLevel(drums', audio'.nodes) * 10 = 8 * GainUnit
     /\ call'.op = "setVolume" /\ drums.masterGain # NoObject =>
          /\ MasterLevel(drums', audio'.nodes) =
               Min(1 * GainUnit, Max(0, call'.arg[1]))
          /\ Len(audio'.nodes) = Len(audio.nodes)
          /\ \A n \in Transient(drums, audio.nodes) :
               audio'.nodes[n] = audio.nodes[n]
          /\ audio'.contexts = audio.contexts
          /\ drums' = drums
    ]_vars

\* setVolume(1.5) on an engine that has played a voice: the level is 1.
C20_Witness ==
  /\ call.op = "setVolume" /\ call.arg = <<15>>
  /\ drums.audioContext # NoObject
  /\ MasterLevel(drums, audio.nodes) = GainUnit
  /\ Len(audio.nodes) > 1

\* The voices fixed for the pads of a detect() result, in its order.
VoicesOf(triggered) == [k \in 1..Len(triggered) |-> soundMap[triggered[k] + 1]]

\* C13: on every pass of loop() the calls of drums.play() are exactly one per
\* index of the detect() result, each with the voice fixed for that index
\* (0 hihat, 1 snare, 2 crash, 3 tom1, 4 kick, 5 tom2, 6 clap, 7 ride,
\* 8 synth), and the pads flashed are the indices of the result; nothing is
\* played for a pad that is not in the result.
C13_LoopPlaysVoices ==
  app.log.looped =>
    /\ app.log.played = VoicesOf(app.log.triggered)
    /\ app.log.flashed = app.log.triggered

\* A pass whose detect() result held two pads and that played two voices.
C13_Witness ==
  /\ app.log.looped
  /\ Len(app.log.triggered) = 2
  /\ app.log.played = <<"hihat", "kick">>

\* C28: in every state of a detector, also right after new MotionDetector
\* with options of the caller and after any calls of the setters, the
\* threshold lies in 1..100 and cooldownMs in 50..1000.
C28_ConfigInRange ==
  /\ detector.threshold \in MinThreshold..MaxThreshold
  /\ detector.cooldownMs \in MinCooldown..MaxCooldown

\* A detector made with a threshold and a cooldown inside the ranges.
C28_Witness ==
  /\ call.op = "new" /\ Len(call.arg) = 1
  /\ call.arg[1].threshold = 100 /\ call.arg[1].cooldownMs = 50
  /\ detector.threshold = 100 /\ detector.cooldownMs = 50

\* C29: setThreshold and setCooldown change the configuration value and
\* nothing else of the detector: previousBrightness and the cooldown expiry
\* of every pad stay as they were, so a pad in cooldown keeps the expiry it
\* got when it triggered; and the pass right after a setter call uses the
\* value that call set, for every pad.
C29_SettersOnlyConfig ==
  [][ /\ call'.op = "setThreshold" =>
           detector' = [detector EXCEPT !.threshold = detector'.threshold]
      /\ call'.op = "setCooldown" =>
           detector' = [detector EXCEPT !.cooldownMs = detector'.cooldownMs]
      /\ call'.op \in {"setThreshold", "setCooldown"} =>
           \A i \in Cells :
             lastTrigger[i].at > 0 =>
               detector'.cooldowns[i] = lastTrigger[i].at + lastTrigger[i].ms
      /\ call.op = "setThreshold" /\ PassReadsFrame =>
           \A i \in Cells :
             InSeq(i, call'.ret) <=>
               /\ call'.diff[i] >
                    Max(MinThreshold, Min(MaxThreshold, call.arg[1]))
                      * BrightnessUnit(detector)
               /\ call'.arg.now > detector.cooldowns[i]
      /\ call.op = "setCooldown" /\ PassReadsFrame =>
           \A i \in Cells :
             InSeq(i, call'.ret) =>
               detector'.cooldowns[i] =
                 call'.arg.now + Max(MinCooldown, Min(MaxCooldown, call.arg[1]))
    ]_vars

\* setCooldown() was called while a pad is in a cooldown that was given under
\* another cooldownMs, and the pad's expiry is still the one it was given.
C29_Witness ==
  /\ call.op = "setCooldown"
  /\ \E i \in Cells :
       /\ lastTrigger[i].at > 0
       /\ lastTrigger[i].ms # detector.cooldownMs
       /\ detector.cooldowns[i] = lastTrigger[i].at + lastTrigger[i].ms

\* C30: as long as reset() is not called, the cooldown expiry of a pad of a
\* detector never decreases: a pass that triggers the pad sets it to a value
\* strictly greater than the one it had, whatever the clock returns, and no
\* other call changes it.
C30_ExpiryGrows ==
  [][call'.op \notin {"reset", "new"} =>
       \A i \in Cells :
         IF PassReadsFrame /\ InSeq(i, call'.ret)
         THEN detector'.cooldowns[i] > detector.cooldowns[i]
         ELSE detector'.cooldowns[i] = detector.cooldowns[i]]_vars

\* The pixels of the frame buffer of detector `this`.
Buffer(this) == (0..(this.width - 1)) \X (0..(this.height - 1))

\* No pixel of the buffer is visited for two cells.
CellsDisjoint(this) ==
  \A i, j \in Cells :
    i # j => regionPixels(this, i) \cap regionPixels(this, j) = {}

\* Every pixel of the buffer is visited for some cell.
CellsCover(this) ==
  Buffer(this) \subseteq UNION {regionPixels(this, i) : i \in Cells}

CellsEqualSize(this) ==
  \A i, j \in Cells :
    Cardinality(regionPixels(this, i)) = Cardinality(regionPixels(this, j))

\* Cell i lies in grid row i \div cols and grid column i % cols: cells of one
\* row span the same lines, cells of one column the same columns, and rows
\* and columns follow each other in the order of their numbers.
CellsRowMajor(this) ==
  \A i, j \in Cells :
    LET xs(c) == {p[1] : p \in regionPixels(this, c)}
        ys(c) == {p[2] : p \in regionPixels(this, c)}
    IN /\ regionPixels(this, i) \subseteq Buffer(this)
       /\ i \div this.cols = j \div this.cols => ys(i) = ys(j)
       /\ i % this.cols = j % this.cols => xs(i) = xs(j)
       /\ i \div this.cols < j \div this.cols =>
            \A a \in ys(i), b \in ys(j) : a < b
       /\ i % this.cols < j % this.cols =>
            \A a \in xs(i), b \in xs(j) : a < b

RECURSIVE SumLine(_, _, _)
\* The sum of R + G + B over the pixels of line y in the columns xs.
SumLine(imageData, xs, y) ==
  IF xs = {} THEN 0
  ELSE LET x == CHOOSE q \in xs : TRUE
           idx == (y * imageData.width + x) * 4
       IN ImageByte(imageData, idx) + ImageByte(imageData, idx + 1)
            + ImageByte(imageData, idx + 2)
            + SumLine(imageData, xs \ {x}, y)

RECURSIVE SumLines(_, _, _)
\* The sum of R + G + B over those of `pixels` that lie in the lines ys.
SumLines(imageData, pixels, ys) ==
  IF ys = {} THEN 0
  ELSE LET y == CHOOSE q \in ys : TRUE
       IN SumLine(imageData, {p[1] : p \in {q \in pixels : q[2] = y}}, y)
            + SumLines(imageData, pixels, ys \ {y})

\* The sum of R + G + B over a set of pixels of an image.
SumOver(imageData, pixels) ==
  SumLines(imageData, pixels, {p[2] : p \in pixels})

\* The brightness computed for a cell is the average over the pixels visited
\* for it (both sides in units of 1 / BrightnessUnit).
CellAverages(this, imageData) ==
  \A i \in Cells :
    getRegionBrightness(this, imageData, i)
      = SumOver(imageData, regionPixels(this, i))

\* C23: the 9 cells partition the frame buffer of the detector (64x48): they
\* are pairwise disjoint and every pixel of the buffer belongs to one of
\* them; they have the same size; cell i is in grid row i \div 3 and grid
\* column i % 3; and the brightness of a cell is the average over exactly the
\* pixels of that cell.
C23_CellsPartition ==
  /\ CellsDisjoint(detector)
  /\ CellsCover(detector)
  /\ CellsEqualSize(detector)
  /\ CellsRowMajor(detector)
  /\ ReadFrameState =>
       CellAverages(detector, MirroredImage(detector, call.arg.scene))

\* Whether every chain of connections that starts at node n ends in node
\* `to`, over at most `hops` connections and without reaching the
\* destination on the way.
RECURSIVE EndsIn(_, _, _, _)
EndsIn(nodes, n, to, hops) ==
  \/ n = to
  \/ /\ hops > 0
     /\ nodes[n].out # {}
     /\ \A k \in nodes[n].out :
          k # Destination /\ EndsIn(nodes, k, to, hops - 1)

\* The voices with more than one source or more than one chain.
MultiSourceVoices == {"snare", "ride", "clap"}

\* C27: every chain of nodes a play() call makes ends in the master gain of
\* the engine: each node it makes is connected onwards, to nodes of the same
\* call or to the master gain, and never to the destination; and after
\* every step the master gain is the only node connected to the
\* destination of the engine's context (and the destination of a context
\* the engine has closed is fed by one node, the master gain of that time).
C27_ChainsEndInMaster ==
  [][/\ call'.op = "play" =>
          \A n \in MadeNodes :
            /\ audio'.nodes[n].out \subseteq MadeNodes \cup {drums.masterGain}
            /\ EndsIn(audio'.nodes, n, drums.masterGain, 4)
     /\ \A n \in 1..Len(audio'.nodes) :
          Destination \in audio'.nodes[n].out =>
            /\ audio'.nodes[n].ctx = drums'.audioContext => n = drums'.masterGain
            /\ \A m \in 1..Len(audio'.nodes) :
                 /\ Destination \in audio'.nodes[m].out
                 /\ audio'.nodes[m].ctx = audio'.nodes[n].ctx
                 => m = n
    ]_vars

\* A voice of several chains was played on an initialised engine: each of
\* its sources has started and the master gain feeds the destination.
C27_Witness ==
  /\ call.op = "play" /\ call.arg[1] \in MultiSourceVoices
  /\ Cardinality({n \in 1..Len(audio.nodes) :
                    IsSource(audio.nodes[n]) /\ audio.nodes[n].started
                      /\ audio.nodes[n].by = audio.plays}) >= 2
  /\ Destination \in audio.nodes[drums.masterGain].out

\* C26: at any time at most one animation-frame callback for loop() is
\* pending, whatever the sequence of clicks on the start button, clicks
\* during a start() that is still waiting included.
C26_OneLoopPending == Cardinality(app.frames) <= 1

\* start() was called twice and the loop runs with one callback pending.
C26_Witness ==
  /\ Len(app.starts) = 2
  /\ app.isRunning
  /\ app.log.looped
  /\ Cardinality(app.frames) = 1

\* C25: from the return of stop() until start() is called again the
\* controller is not running, no callback of loop() is pending, no pass is
\* made and no sound is played, also when a start() was waiting for audio or
\* for the camera when stop() was called; and stop() leaves the detector,
\* its per-pad state included, as it was.
C25_StopHalts ==
  [][app'.stopped =>
       /\ ~app'.isRunning
       /\ app'.frames = {}
       /\ app'.passes = app.passes
       /\ audio'.plays = audio.plays
       /\ ~app.stopped => detector' = detector]_vars

\* stop() was called on a running loop whose passes had triggered pads: the
\* loop is halted and the expiry of pad 0 is still set.
C25_Witness ==
  /\ app.stopped
  /\ ~app.isRunning /\ app.frames = {}
  /\ app.log.triggered # <<>>
  /\ detector.cooldowns[0] > 0

\* The per-pad state of a detector.
CellState(this) ==
  [previousBrightness |-> this.previousBrightness, cooldowns |-> this.cooldowns]

\* C24: a detector with a debug sink bound and one without, given the same
\* frames, clock readings and configuration, hand the same detect() result
\* to the caller on every pass (neither throws) and have the same per-pad
\* state after every step, also when painting the sink fails.
C24_SinkNoEffect ==
  /\ CellState(detector) = CellState(twin.this)
  /\ call.op = "detect" => ~call.thrown /\ call.ret = twin.ret

\* A pass of both detectors has triggered a pad; the sink of the first was
\* painted, the second has none.
C24_Witness ==
  /\ call.op = "detect" /\ call.arg.throws = "none"
  /\ detector.debugCtx # NoContext /\ twin.this.debugCtx = NoContext
  /\ call.ret # <<>> /\ call.ret = twin.ret
  /\ CellState(detector) = CellState(twin.this)

\* This step has made a pass of loop() with the controller running.
PassMade == app'.passes # app.passes

\* The pass of this step has requested the next one: a new callback of
\* loop() is pending and this.animationId names it.
NextScheduled ==
  /\ app'.handles = app.handles + 1
  /\ app'.animationId = app'.handles
  /\ app'.animationId \in app'.frames

\* C21 as stated: every pass made while running schedules the next pass,
\* and a pass that fails (the frame is unreadable, detect() throws or a
\* trigger handler throws) produces no output: no sound and no flash.
C21_FailedPassNoOutput ==
  [][PassMade =>
       /\ NextScheduled
       /\ app'.log.caught # "none" \/ ~app'.log.read =>
            app'.log.played = <<>> /\ app'.log.flashed = <<>>]_vars

\* C21, amended: every pass made while running schedules the next pass,
\* whatever fails on it, and a running controller always has a callback of
\* loop() pending; a pass whose frame is unreadable or whose detect() throws
\* plays and flashes nothing; a pass on which a trigger handler throws has
\* handled the pads before the failing one, does not flash the failing pad
\* and handles no pad after it.
C21_LoopKeepsGoing ==
  [][/\ PassMade =>
          /\ NextScheduled
          /\ app'.log.caught = "detect" \/ ~app'.log.read =>
               app'.log.played = <<>> /\ app'.log.flashed = <<>>
          /\ app'.log.caught = "handler" =>
               /\ Len(app'.log.flashed) < Len(app'.log.triggered)
               /\ Len(app'.log.played) <= Len(app'.log.flashed) + 1
               /\ \A k \in 1..Len(app'.log.flashed) :
                    app'.log.flashed[k] = app'.log.triggered[k]
     /\ app'.isRunning => app'.frames # {}]_vars

\* A pass on which detect() threw, and a callback for the next pass is
\* pending.
C21_Witness ==
  /\ app.isRunning
  /\ app.log.looped /\ app.log.caught = "detect"
  /\ app.animationId \in app.frames

\* A pass on which the handler of the second triggered pad threw after the
\* first pad had sounded and flashed.
C21_HandlerWitness ==
  /\ app.log.caught = "handler"
  /\ app.log.flashed # <<>>
  /\ app.animationId \in app.frames

\* C22: whatever the aspect ratio of the camera, a pass that reads a frame
\* samples the centred part of the picture that has the aspect ratio of the
\* buffer: the brightness it stores for every pad is the brightness of the
\* scene in that part, and what the picture shows beside it has no
\* influence.
C22_CoverCrop ==
  [][PassReadsFrame =>
       \A i \in Cells :
         detector'.previousBrightness[i] = BrightnessOf(call'.arg.scene, i)]_vars

\* A pass has read the picture of the 4:3 camera: source and buffer have the
\* same aspect ratio and the stored brightness is that of the scene.
C22_Witness ==
  /\ ReadFrameState
  /\ call.arg.videoWidth = DefaultWidth
  /\ call.arg.scene = SceneOf(21, 0)
  /\ detector.previousBrightness[4] = BrightnessOf(call.arg.scene, 4)

\* This step settles start() number s through its catch block.
Fails(s) == app'.starts[s].failed /\ ~app.starts[s].failed

\* C31: when a start() settles after one of its steps has failed, the
\* controller is not running and no callback of loop() is pending, the
\* camera stream that start() had acquired is stopped and is not on the
\* video element, and the engine that start() had made holds no open
\* context and is not this.drums.
C31_FailedStartCleansUp ==
  [][\A s \in 1..Len(app.starts) :
       Fails(s) =>
         LET settled == app'.starts[s] IN
           /\ ~app'.isRunning /\ app'.frames = {}
           /\ settled.stream # NoObject =>
                ~app'.streams[settled.stream] /\ app'.srcObject # settled.stream
           /\ app'.engines[settled.drums].audioContext = NoObject
           /\ app'.drums # settled.drums]_vars

\* The only start() made has failed at video.play(): its stream is stopped
\* and taken off the element, its engine is disposed of and let go, and no
\* loop runs.
C31_Witness ==
  /\ Len(app.starts) = 1
  /\ app.starts[1].failed /\ app.starts[1].stream # NoObject
  /\ ~app.streams[app.starts[1].stream] /\ app.srcObject = NoObject
  /\ app.engines[1].audioContext = NoObject /\ app.drums = NoObject
  /\ audio.contexts[1].state = "closed"
  /\ ~app.isRunning /\ app.frames = {}

\* C32: every audio context made by init() is closed or is the context of
\* the engine the controller holds in this.drums.
C32_NoContextLeaked ==
  \A k \in 1..Len(audio.contexts) :
    \/ audio.contexts[k].state = "closed"
    \/ app.drums # NoObject /\ app.engines[app.drums].audioContext = k

\* Two contexts were made by two start() calls: the first is closed and the
\* controller holds the engine of the second, which is open.
C32_Witness ==
  /\ Len(audio.contexts) = 2
  /\ audio.contexts[1].state = "closed"
  /\ audio.contexts[2].state = "running"
  /\ app.drums # NoObject /\ app.engines[app.drums].audioContext = 2

\* The sampler has cleared its timer and reported once, having counted
\* SAMPLE_FRAMES samples.
Reported ==
  /\ diag.sampleInterval = "cleared"
  /\ diag.reports = 1
  /\ diag.frameCount = SAMPLE_FRAMES

\* C33: once the sampler is started it eventually clears its timer and
\* reports, and it reports at most once and only when it has counted
\* SAMPLE_FRAMES samples and cleared the timer.
C33_SamplerTerminates ==
  /\ [](diag.reports > 0 => Reported)
  /\ (diag.sampleInterval = "active") ~> Reported

\* The sampler caught a sample that threw and still reported once after
\* SAMPLE_FRAMES samples.
C33_Witness == diag.caught /\ Reported

\* What the sampler keeps: it reports at most once, with the timer cleared
\* and SAMPLE_FRAMES samples counted, and it terminates in every run in which
\* reading the canvas back stops throwing for good.
SamplerTerminatesAfterFaults ==
  /\ [](diag.reports > 0 => Reported)
  /\ (<>[](~diag.throws)) => ((diag.sampleInterval = "active") ~> Reported)

====
